---- MODULE Spec2Model ----
(***************************************************************************)
(* A model of acetime's ZoneProcessor (src/src/acetime/zone_processor.py)  *)
(* and of the calendar helpers it imports (src/src/acetime/common.py).     *)
(*                                                                         *)
(* Python values are modelled as follows:                                  *)
(*   - a NamedTuple / TypedDict is a record with the same field names;     *)
(*   - an Optional[X] that the code tests for None is a sequence of        *)
(*     length 0 (None) or 1 (the value);                                   *)
(*   - a str is a sequence of one-character strings, except for the time   *)
(*     suffix ('w', 's', 'u') and the policy name, which stay strings;     *)
(*   - a function that can raise returns [ok |-> FALSE] instead of its     *)
(*     value, and the exception propagates to the caller as in Python.     *)
(***************************************************************************)
EXTENDS Integers, Sequences, FiniteSets, TLC

(***************************************************************************)
(* common.py: constants                                                    *)
(***************************************************************************)
INVALID_YEAR == -32768
MIN_YEAR == -32767
MAX_UNTIL_YEAR == 32767
MAX_TO_YEAR == MAX_UNTIL_YEAR - 1
EPOCH_YEAR == 2050

\* datetime.MINYEAR and datetime.MAXYEAR of the Python standard library: the
\* range outside of which datetime(), date() and datetime + timedelta raise.
PY_MINYEAR == 1
PY_MAXYEAR == 9999

SECONDS_PER_DAY == 86400

None == << >>
Some(x) == << x >>

Raise(e) == [ok |-> FALSE, exc |-> e]
Return(v) == [ok |-> TRUE, v |-> v]

(***************************************************************************)
(* The proleptic Gregorian calendar of datetime.date                       *)
(***************************************************************************)
IsLeap(year) == (year % 4 = 0) /\ ((year % 100 # 0) \/ (year % 400 = 0))

DAYS_IN_MONTH == << 31, 28, 31, 30, 31, 30, 31, 31, 30, 31, 30, 31 >>

\* common.days_in_year_month: the month may be 0 (December) or 13 (January).
days_in_year_month(year, month) ==
    LET days == DAYS_IN_MONTH[((month - 1) % 12) + 1]
    IN IF month = 2 /\ IsLeap(year) THEN days + 1 ELSE days

\* date(y, M, d) raises ValueError unless this holds.
IsValidDate(y, M, d) ==
    /\ y >= PY_MINYEAR /\ y <= PY_MAXYEAR
    /\ M >= 1 /\ M <= 12
    /\ d >= 1 /\ d <= days_in_year_month(y, M)

DaysBeforeYear(y) ==
    LET p == y - 1
    IN p * 365 + (p \div 4) - (p \div 100) + (p \div 400)

RECURSIVE DaysBeforeMonth(_, _)
DaysBeforeMonth(y, M) ==
    IF M <= 1 THEN 0
    ELSE DaysBeforeMonth(y, M - 1) + days_in_year_month(y, M - 1)

\* date.toordinal(): 0001-01-01 is day 1.
ToOrdinal(y, M, d) == DaysBeforeYear(y) + DaysBeforeMonth(y, M) + d

\* The year that holds day n, 0001-01-01 being day 1.
YearOfOrdinal(n) ==
    LET y0 == (((n - 1) * 400) \div 146097) + 1
    IN CHOOSE c \in (y0 - 1) .. (y0 + 1) :
           DaysBeforeYear(c) < n /\ n <= DaysBeforeYear(c + 1)

\* The month of year y that holds its day r, the first day being 1.
MonthOfYearDay(y, r) ==
    CHOOSE c \in 1 .. 12 :
        LET before == DaysBeforeMonth(y, c)
        IN before < r /\ r <= before + days_in_year_month(y, c)

\* date.fromordinal(n) as [y, M, d].
FromOrdinal(n) ==
    LET InYear(y) ==
            LET InMonth(r, M) ==
                    [y |-> y, M |-> M, d |-> r - DaysBeforeMonth(y, M)]
            IN InMonth(n - DaysBeforeYear(y),
                       MonthOfYearDay(y, n - DaysBeforeYear(y)))
    IN InYear(YearOfOrdinal(n))

\* date.isoweekday(): Monday is 1, Sunday is 7; 0001-01-01 was a Monday.
IsoWeekday(y, M, d) == ((ToOrdinal(y, M, d) + 6) % 7) + 1

(***************************************************************************)
(* common.py: h:m:s helpers and calc_day_of_month                          *)
(***************************************************************************)
seconds_to_hms(seconds) ==
    LET minutes == seconds \div 60
    IN << minutes \div 60, minutes % 60, seconds % 60 >>

hms_to_seconds(h, m, s) == (h * 60 + m) * 60 + s

\* Returns Return(<<month, day>>), or raises when date() rejects the limit
\* date.
\* A variant that takes the day of the rule as it stands, whatever the
\* weekday asked for.
CalcDayOfMonthAsWritten(year, month, on_day_of_week, on_day_of_month) ==
    Return(<< month, IF on_day_of_month < 0 THEN -on_day_of_month
                     ELSE IF on_day_of_month = 0 THEN 1
                     ELSE on_day_of_month >>)

calc_day_of_month(year, month, on_day_of_week, on_day_of_month) ==
    IF on_day_of_week = 0 THEN Return(<< month, on_day_of_month >>)
    ELSE IF on_day_of_month >= 0 THEN
        LET OnOrAfter(days_in_month, dom) ==
                LET Shifted(day) ==
                        IF day > days_in_month
                        THEN Return(<< month + 1, day - days_in_month >>)
                        ELSE Return(<< month, day >>)
                IN IF ~IsValidDate(year, month, dom)
                   THEN Raise("ValueError")
                   ELSE Shifted(
                            dom + ((on_day_of_week
                                    - IsoWeekday(year, month, dom) + 7) % 7))
            LastWeek(days_in_month) ==
                OnOrAfter(days_in_month,
                          IF on_day_of_month = 0 THEN days_in_month - 6
                          ELSE on_day_of_month)
        IN LastWeek(days_in_year_month(year, month))
    ELSE
        LET OnOrBefore(dom) ==
                LET Shifted(day) ==
                        IF day < 1
                        THEN Return(<< month - 1,
                                       day + days_in_year_month(year,
                                                                month - 1) >>)
                        ELSE Return(<< month, day >>)
                IN IF ~IsValidDate(year, month, dom)
                   THEN Raise("ValueError")
                   ELSE Shifted(
                            dom - ((IsoWeekday(year, month, dom)
                                    - on_day_of_week + 7) % 7))
        IN OnOrBefore(-on_day_of_month)

(***************************************************************************)
(* zone_processor.py: DateTuple                                            *)
(***************************************************************************)
DateTuple(y, M, d, ss, f) == [y |-> y, M |-> M, d |-> d, ss |-> ss, f |-> f]

\* Python orders the suffix strings by code point: 's' < 'u' < 'w'.
SuffixRank(f) == CASE f = "s" -> 1 [] f = "u" -> 2 [] f = "w" -> 3

\* a < b of two DateTuples: NamedTuples compare field by field, the suffix
\* included.
TupleLess(a, b) ==
    \/ a.y < b.y
    \/ a.y = b.y /\ a.M < b.M
    \/ a.y = b.y /\ a.M = b.M /\ a.d < b.d
    \/ a.y = b.y /\ a.M = b.M /\ a.d = b.d /\ a.ss < b.ss
    \/ /\ a.y = b.y /\ a.M = b.M /\ a.d = b.d /\ a.ss = b.ss
       /\ SuffixRank(a.f) < SuffixRank(b.f)

TupleLessEq(a, b) == a = b \/ TupleLess(a, b)

_compare_date_tuple(a, b) ==
    IF a.y < b.y THEN -1
    ELSE IF a.y > b.y THEN 1
    ELSE IF a.M < b.M THEN -1
    ELSE IF a.M > b.M THEN 1
    ELSE IF a.d < b.d THEN -1
    ELSE IF a.d > b.d THEN 1
    ELSE 0

\* A datetime is [year, month, day, hour, minute, second, fold].
DateTime(y, M, d, h, m, s, fold) ==
    [year |-> y, month |-> M, day |-> d, hour |-> h, minute |-> m,
     second |-> s, fold |-> fold]

_datetime_to_datetuple(dt, format) ==
    DateTuple(dt.year, dt.month, dt.day,
              hms_to_seconds(dt.hour, dt.minute, dt.second), format)

\* datetime(y, M, d) + timedelta(seconds=secs): raises ValueError for an
\* invalid date and OverflowError when the sum leaves MINYEAR..MAXYEAR.
DatePlusSeconds(y, M, d, secs) ==
    LET OnDay(n) ==
            LET At(c, hms) ==
                    DateTime(c.y, c.M, c.d, hms[1], hms[2], hms[3], 0)
            IN IF n < 1 \/ n > DaysBeforeYear(PY_MAXYEAR + 1)
               THEN Raise("OverflowError")
               ELSE Return(At(FromOrdinal(n),
                              seconds_to_hms(secs % SECONDS_PER_DAY)))
    IN IF ~IsValidDate(y, M, d) THEN Raise("ValueError")
       ELSE OnDay(ToOrdinal(y, M, d) + (secs \div SECONDS_PER_DAY))

\* A variant that brings the seconds into the day and leaves the date as it
\* is.
NormalizeWithoutCarry(tt) ==
    IF tt.y = MIN_YEAR THEN Return(DateTuple(MIN_YEAR, 1, 1, 0, tt.f))
    ELSE Return(DateTuple(tt.y, tt.M, tt.d, tt.ss % SECONDS_PER_DAY, tt.f))

\* When datetime() itself raises, the except clause reads the still unbound
\* name st and raises UnboundLocalError in place of the ValueError; an
\* overflow of the addition is logged and raised again.
_normalize_date_tuple(tt) ==
    LET Sum(st) ==
            IF st.ok THEN Return(_datetime_to_datetuple(st.v, tt.f))
            ELSE IF st.exc = "ValueError" THEN Raise("UnboundLocalError")
            ELSE st
    IN IF tt.y = MIN_YEAR THEN Return(DateTuple(MIN_YEAR, 1, 1, 0, tt.f))
       ELSE Sum(DatePlusSeconds(tt.y, tt.M, tt.d, tt.ss))

\* Number of seconds in (a - b), ignoring the suffix; date() raises on an
\* invalid date.
_subtract_date_tuple(a, b) ==
    IF ~IsValidDate(a.y, a.M, a.d) \/ ~IsValidDate(b.y, b.M, b.d)
    THEN Raise("ValueError")
    ELSE Return((ToOrdinal(a.y, a.M, a.d) - ToOrdinal(b.y, b.M, b.d))
                    * SECONDS_PER_DAY + (a.ss - b.ss))

\* A variant that leaves delta_seconds out when it converts from or to the
\* 'w' form.
ExpandDateTupleWithoutDelta(dt, offset, delta) ==
    LET Form(ss, f) == _normalize_date_tuple(DateTuple(dt.y, dt.M, dt.d, ss, f))
        Forms(w, st, u) ==
            IF w.ok /\ st.ok /\ u.ok THEN Return(<< w.v, st.v, u.v >>)
            ELSE Raise("OverflowError")
    IN IF dt.f = "u"
       THEN Forms(Form(dt.ss + offset, "w"),
                  Form(dt.ss + offset, "s"), Form(dt.ss, "u"))
       ELSE Forms(Form(dt.ss, "w"), Form(dt.ss, "s"),
                  Form(dt.ss - offset, "u"))

\* Returns Return(<<dtw, dts, dtu>>). A suffix other than 'w', 's', 'u' ends
\* the process with sys.exit(1).
_expand_date_tuple(dt, offset_seconds, delta_seconds) ==
    IF dt.f \notin {"w", "s", "u"} THEN Raise("SystemExit")
    ELSE
      LET dtw == IF dt.f = "w" THEN dt
                 ELSE IF dt.f = "s"
                 THEN DateTuple(dt.y, dt.M, dt.d, dt.ss + delta_seconds, "w")
                 ELSE DateTuple(dt.y, dt.M, dt.d,
                                dt.ss + delta_seconds + offset_seconds, "w")
          dts == IF dt.f = "w"
                 THEN DateTuple(dt.y, dt.M, dt.d, dt.ss - delta_seconds, "s")
                 ELSE IF dt.f = "s" THEN dt
                 ELSE DateTuple(dt.y, dt.M, dt.d, dt.ss + offset_seconds, "s")
          dtu == IF dt.f = "w"
                 THEN DateTuple(dt.y, dt.M, dt.d,
                                dt.ss - delta_seconds - offset_seconds, "u")
                 ELSE IF dt.f = "s"
                 THEN DateTuple(dt.y, dt.M, dt.d, dt.ss - offset_seconds, "u")
                 ELSE dt
          Normalized(nw, ns, nu) ==
              IF ~nw.ok THEN nw
              ELSE IF ~ns.ok THEN ns
              ELSE IF ~nu.ok THEN nu
              ELSE Return(<< nw.v, ns.v, nu.v >>)
      IN Normalized(_normalize_date_tuple(dtw), _normalize_date_tuple(dts),
                    _normalize_date_tuple(dtu))

(***************************************************************************)
(* zone_processor.py: MatchingEra, Transition, TransitionStorage           *)
(***************************************************************************)
YearMonthTuple(y, M) == [y |-> y, M |-> M]

MatchingEra(start_date_time, until_date_time, zone_era) ==
    [start_date_time |-> start_date_time,
     until_date_time |-> until_date_time,
     zone_era |-> zone_era]

\* Transition(matching_era=match): every slot is None except the three that
\* are copied from the match. transition_time is assigned by both callers
\* right after construction, so the constructor takes it here.
Transition(matching_era, transition_time, zone_rule) ==
    [start_date_time |-> matching_era.start_date_time,
     until_date_time |-> matching_era.until_date_time,
     start_epoch_second |-> None,
     matching_era |-> matching_era,
     transition_time |-> transition_time,
     transition_time_s |-> None,
     transition_time_u |-> None,
     original_transition_time |-> None,
     abbrev |-> None,
     zone_rule |-> zone_rule,
     is_active |-> None]

format(t) == t.matching_era.zone_era.format

offset_seconds(t) == t.matching_era.zone_era.offset_seconds

letter(t) == IF t.zone_rule # None THEN t.zone_rule[1].letter ELSE << >>

delta_seconds(t) ==
    IF t.zone_rule # None THEN t.zone_rule[1].delta_seconds
    ELSE t.matching_era.zone_era.rules_delta_seconds

\* Python truthiness of an Optional[bool].
Truthy(x) == x # None /\ x[1]

\* A TransitionStorage is its two counters and, for the properties that
\* speak of the counters during a run, their history: the pair of counters
\* that each call of clear, push_transitions and pop_transitions left, from
\* the last clear() on.
Counters(free, beyond) == [index_free |-> free, index_beyond |-> beyond]

\* TransitionStorage.clear()
clear ==
    [index_free |-> 0, index_beyond |-> 0, history |-> << Counters(0, 0) >>]

\* A push that does not raise the peak: index_beyond stays where it was.
PushTransitionsBelowPeak(storage, delta) ==
    [index_free |-> storage.index_free + delta,
     index_beyond |-> storage.index_beyond,
     history |-> Append(storage.history,
                        Counters(storage.index_free + delta,
                                 storage.index_beyond))]

push_transitions(storage, delta) ==
    LET Pushed(free, beyond) ==
            [index_free |-> free, index_beyond |-> beyond,
             history |-> Append(storage.history, Counters(free, beyond))]
    IN Pushed(storage.index_free + delta,
              IF storage.index_free + delta > storage.index_beyond
              THEN storage.index_free + delta
              ELSE storage.index_beyond)

\* A variant that records the pop but takes nothing off the stack.
PopTransitionsKeepsCount(storage, delta) ==
    [index_free |-> storage.index_free,
     index_beyond |-> storage.index_beyond,
     history |-> Append(storage.history,
                        Counters(storage.index_free, storage.index_beyond))]

pop_transitions(storage, delta) ==
    [index_free |-> storage.index_free - delta,
     index_beyond |-> storage.index_beyond,
     history |-> Append(storage.history,
                        Counters(storage.index_free - delta,
                                 storage.index_beyond))]

OffsetInfo(total_offset, utc_offset, dst_offset, abbrev, fold) ==
    [total_offset |-> total_offset, utc_offset |-> utc_offset,
     dst_offset |-> dst_offset, abbrev |-> abbrev, fold |-> fold]

_to_offset_info(transition, fold) ==
    OffsetInfo(offset_seconds(transition) + delta_seconds(transition),
               offset_seconds(transition),
               delta_seconds(transition),
               transition.abbrev,
               fold)

(***************************************************************************)
(* Step 1: the matching eras                                               *)
(***************************************************************************)
_compare_era_to_year_month(era, year, month) ==
    IF era.until_year < year THEN -1
    ELSE IF era.until_year > year THEN 1
    ELSE IF era.until_month < month THEN -1
    ELSE IF era.until_month > month THEN 1
    ELSE IF era.until_day > 1 THEN 1
    ELSE IF era.until_seconds < 0 THEN -1
    ELSE IF era.until_seconds > 0 THEN 1
    ELSE 0

\* A variant that also takes an era which begins exactly at until_ym.
EraOverlapsClosedInterval(prev_era, era, start_ym, until_ym) ==
    /\ \/ prev_era = None
       \/ _compare_era_to_year_month(prev_era[1], until_ym.y, until_ym.M) <= 0
    /\ _compare_era_to_year_month(era, start_ym.y, start_ym.M) > 0

\* prev_era is an Optional[ZoneEra].
_era_overlaps_interval(prev_era, era, start_ym, until_ym) ==
    /\ \/ prev_era = None
       \/ _compare_era_to_year_month(prev_era[1], until_ym.y, until_ym.M) < 0
    /\ _compare_era_to_year_month(era, start_ym.y, start_ym.M) > 0

\* A variant that cuts the until of the era at the window but leaves the
\* start where the era before it ended.
CreateMatchFromEraStart(prev_era, zone_era, start_ym, until_ym) ==
    LET start0 == IF prev_era = None
                  THEN DateTuple(MIN_YEAR, 1, 1, 0, "w")
                  ELSE DateTuple(prev_era[1].until_year,
                                 prev_era[1].until_month,
                                 prev_era[1].until_day,
                                 prev_era[1].until_seconds,
                                 prev_era[1].until_time_suffix)
        until0 == DateTuple(zone_era.until_year, zone_era.until_month,
                            zone_era.until_day, zone_era.until_seconds,
                            zone_era.until_time_suffix)
        right_boundary == DateTuple(until_ym.y, until_ym.M, 1, 0, "w")
    IN MatchingEra(start0,
                   IF TupleLess(right_boundary, until0)
                   THEN right_boundary ELSE until0,
                   zone_era)

_create_match(prev_era, zone_era, start_ym, until_ym) ==
    LET start0 == IF prev_era = None
                  THEN DateTuple(MIN_YEAR, 1, 1, 0, "w")
                  ELSE DateTuple(prev_era[1].until_year,
                                 prev_era[1].until_month,
                                 prev_era[1].until_day,
                                 prev_era[1].until_seconds,
                                 prev_era[1].until_time_suffix)
        left_boundary == DateTuple(start_ym.y, start_ym.M, 1, 0, "w")
        start_date_time == IF TupleLess(start0, left_boundary)
                           THEN left_boundary ELSE start0
        until0 == DateTuple(zone_era.until_year, zone_era.until_month,
                            zone_era.until_day, zone_era.until_seconds,
                            zone_era.until_time_suffix)
        right_boundary == DateTuple(until_ym.y, until_ym.M, 1, 0, "w")
        until_date_time == IF TupleLess(right_boundary, until0)
                           THEN right_boundary ELSE until0
    IN MatchingEra(start_date_time, until_date_time, zone_era)

RECURSIVE FindMatchesFrom(_, _, _, _, _)
FindMatchesFrom(zone_eras, k, matches, start_ym, until_ym) ==
    IF k > Len(zone_eras) THEN matches
    ELSE LET prev_era == IF k = 1 THEN None ELSE Some(zone_eras[k - 1])
             zone_era == zone_eras[k]
         IN FindMatchesFrom(
                zone_eras, k + 1,
                IF _era_overlaps_interval(prev_era, zone_era,
                                          start_ym, until_ym)
                THEN Append(matches, _create_match(prev_era, zone_era,
                                                   start_ym, until_ym))
                ELSE matches,
                start_ym, until_ym)

_find_matches(zone_info, start_ym, until_ym) ==
    FindMatchesFrom(zone_info.eras, 1, << >>, start_ym, until_ym)

(***************************************************************************)
(* Step 2, pass 1: the candidate transitions of a named era                *)
(***************************************************************************)
_get_transition_time(year, rule) ==
    LET OnDay(md) ==
            IF md.ok
            THEN Return(DateTuple(year, md.v[1], md.v[2], rule.at_seconds,
                                  rule.at_time_suffix))
            ELSE md
    IN OnDay(calc_day_of_month(year, rule.in_month, rule.on_day_of_week,
                               rule.on_day_of_month))

_create_transition_for_year(year, rule, match) ==
    LET At(tt) ==
            IF tt.ok THEN Return(Transition(match, tt.v, Some(rule))) ELSE tt
    IN At(_get_transition_time(year, rule))

\* The years of start_year .. end_year inside [from_year, to_year], ascending.
RECURSIVE InteriorYearsFrom(_, _, _, _)
InteriorYearsFrom(from_year, to_year, year, end_year) ==
    IF year > end_year THEN << >>
    ELSE IF from_year <= year /\ year <= to_year
    THEN << year >> \o InteriorYearsFrom(from_year, to_year, year + 1,
                                         end_year)
    ELSE InteriorYearsFrom(from_year, to_year, year + 1, end_year)

_get_interior_years(from_year, to_year, start_year, end_year) ==
    InteriorYearsFrom(from_year, to_year, start_year, end_year)

_get_most_recent_prior_year(from_year, to_year, start_year, end_year) ==
    IF from_year < start_year
    THEN IF to_year < start_year THEN to_year ELSE start_year - 1
    ELSE -1

\* A variant without the slack of one month before the start and two months
\* after the until.
CompareTransitionToMatchByMonth(transition, match) ==
    LET tt == transition.transition_time
        ms == match.start_date_time
        mu == match.until_date_time
    IN IF 12 * tt.y + tt.M < 12 * ms.y + ms.M THEN -1
       ELSE IF 12 * mu.y + mu.M <= 12 * tt.y + tt.M THEN 2
       ELSE 1

_compare_transition_to_match_fuzzy(transition, match) ==
    LET tt == transition.transition_time
        transition_time == 12 * tt.y + tt.M
        ms == match.start_date_time
        match_start == 12 * ms.y + ms.M
        mu == match.until_date_time
        match_until == 12 * mu.y + mu.M
    IN IF transition_time < match_start - 1 THEN -1
       ELSE IF match_until + 2 <= transition_time THEN 2
       ELSE 1

\* One pass of the insertion loop, i running from the last index down to 1
\* (0-based); the list here is 1-based, so the pair is (i, i + 1).
RECURSIVE InsertionPass(_, _)
InsertionPass(transitions, i) ==
    IF i < 1 THEN transitions
    ELSE LET curr == transitions[i + 1]
             prev == transitions[i]
         IN InsertionPass(
                IF _compare_date_tuple(curr.transition_time,
                                       prev.transition_time) < 0
                THEN [transitions EXCEPT ![i] = curr, ![i + 1] = prev]
                ELSE transitions,
                i - 1)

_add_transition_sorted(transitions, transition) ==
    InsertionPass(Append(transitions, transition), Len(transitions))

\* prior_transition is an Optional[Transition]; the result is a Transition.
_select_prior_transition(prior_transition, transition) ==
    IF prior_transition # None
    THEN IF TupleLess(prior_transition[1].transition_time,
                      transition.transition_time)
         THEN transition
         ELSE prior_transition[1]
    ELSE transition

\* The loop state of _find_candidate_transitions: the candidate list, the
\* running prior transition, the storage counters and the exception raised,
\* if any.
CandState(transitions, prior_transition, storage, exc) ==
    [transitions |-> transitions, prior_transition |-> prior_transition,
     storage |-> storage, exc |-> exc]

\* The body of "for year in years".
CandidateForYear(c, year, rule, match) ==
    LET Compared(transition, pushed, comp) ==
            IF comp < 0
            THEN CandState(c.transitions,
                           Some(_select_prior_transition(c.prior_transition,
                                                         transition)),
                           pop_transitions(pushed, 1), c.exc)
            ELSE IF comp = 1
            THEN CandState(_add_transition_sorted(c.transitions, transition),
                           c.prior_transition, pushed, c.exc)
            ELSE CandState(c.transitions, c.prior_transition,
                           pop_transitions(pushed, 1), c.exc)
        Made(made) ==
            IF ~made.ok THEN [c EXCEPT !.exc = made.exc]
            ELSE Compared(made.v, push_transitions(c.storage, 1),
                          _compare_transition_to_match_fuzzy(made.v, match))
    IN Made(_create_transition_for_year(year, rule, match))

RECURSIVE CandidatesForYears(_, _, _, _, _)
CandidatesForYears(c, years, k, rule, match) ==
    IF c.exc # "" \/ k > Len(years) THEN c
    ELSE CandidatesForYears(CandidateForYear(c, years[k], rule, match),
                            years, k + 1, rule, match)

\* The body of "for rule in rules".
CandidatesForRule(c, rule, match, start_y, end_y) ==
    LET Prior(c1, made) ==
            IF ~made.ok THEN [c1 EXCEPT !.exc = made.exc]
            ELSE CandState(
                     c1.transitions,
                     Some(_select_prior_transition(c1.prior_transition,
                                                   made.v)),
                     pop_transitions(push_transitions(c1.storage, 1), 1),
                     c1.exc)
        Interior(c1, prior_year) ==
            IF c1.exc # "" \/ prior_year < 0 THEN c1
            ELSE Prior(c1, _create_transition_for_year(prior_year, rule,
                                                       match))
    IN Interior(
           CandidatesForYears(
               c, _get_interior_years(rule.from_year, rule.to_year,
                                      start_y, end_y),
               1, rule, match),
           _get_most_recent_prior_year(rule.from_year, rule.to_year,
                                       start_y, end_y))

RECURSIVE CandidatesForRules(_, _, _, _, _, _)
CandidatesForRules(c, rules, k, match, start_y, end_y) ==
    IF c.exc # "" \/ k > Len(rules) THEN c
    ELSE CandidatesForRules(
             CandidatesForRule(c, rules[k], match, start_y, end_y),
             rules, k + 1, match, start_y, end_y)

\* Returns a CandState: its transitions are the returned list, its storage
\* the counters the call leaves behind.
_find_candidate_transitions(storage, match, rules) ==
    LET start_y == match.start_date_time.y
        until == match.until_date_time
        end_y == IF until.M = 1 /\ until.d = 1 /\ until.ss = 0
                 THEN until.y - 1 ELSE until.y
        c0 == CandState(<< >>, None, push_transitions(storage, 1), "")
        Found(c) ==
            IF c.exc # "" THEN c
            ELSE IF c.prior_transition # None
            THEN [c EXCEPT !.transitions =
                      _add_transition_sorted(c.transitions,
                                             c.prior_transition[1])]
            ELSE [c EXCEPT !.storage = pop_transitions(c.storage, 1)]
    IN Found(CandidatesForRules(c0, rules, 1, match, start_y, end_y))

\* prev is bound to the first element and never advanced.
_check_transitions_sorted(transitions) ==
    IF \E i \in 2 .. Len(transitions) :
           TupleLess(transitions[i].transition_time,
                     transitions[1].transition_time)
    THEN Raise("Exception")
    ELSE Return(None)

(***************************************************************************)
(* Step 2, pass 2 and step 3: the w, s and u forms of the transition times *)
(***************************************************************************)
\* The list after the loop has handled elements k .. Len; prev is the element
\* whose offsets convert element k. An exception leaves the elements already
\* converted in place.
RECURSIVE FixTimesFrom(_, _, _)
FixTimesFrom(transitions, k, prev) ==
    IF k > Len(transitions) THEN [transitions |-> transitions, exc |-> ""]
    ELSE
      LET Fixed(fixed) ==
              FixTimesFrom([transitions EXCEPT ![k] = fixed], k + 1, fixed)
          Expanded(e) ==
              IF ~e.ok THEN [transitions |-> transitions, exc |-> e.exc]
              ELSE Fixed([transitions[k] EXCEPT
                              !.transition_time = e.v[1],
                              !.transition_time_s = Some(e.v[2]),
                              !.transition_time_u = Some(e.v[3])])
      IN Expanded(_expand_date_tuple(transitions[k].transition_time,
                                     offset_seconds(prev),
                                     delta_seconds(prev)))

\* transitions[0] of an empty list raises IndexError.
_fix_transition_times(transitions) ==
    IF Len(transitions) = 0
    THEN [transitions |-> transitions, exc |-> "IndexError"]
    ELSE FixTimesFrom(transitions, 1, transitions[1])

(***************************************************************************)
(* Step 2, pass 3: the active transitions of a named era                   *)
(***************************************************************************)
\* The transition time in the form that the suffix f asks for. The s and u
\* forms are None until _fix_transition_times has run.
TimeInSuffix(transition, f) ==
    IF f = "w" THEN Return(transition.transition_time)
    ELSE IF f = "s" THEN Return(transition.transition_time_s[1])
    ELSE IF f = "u" THEN Return(transition.transition_time_u[1])
    ELSE Raise("Exception")

\* A variant that lets a transition exactly at the until of the match count
\* as within it.
CompareTransitionToMatchClosedUntil(transition, match) ==
    LET at_start == TimeInSuffix(transition, match.start_date_time.f).v
        at_until == TimeInSuffix(transition, match.until_date_time.f).v
    IN IF TupleLess(at_start, match.start_date_time) THEN Return(-1)
       ELSE IF at_start = match.start_date_time THEN Return(0)
       ELSE IF TupleLess(match.until_date_time, at_until) THEN Return(2)
       ELSE Return(1)

_compare_transition_to_match(transition, match) ==
    LET match_start == match.start_date_time
        match_until == match.until_date_time
        Until(at_until) ==
            IF ~at_until.ok THEN at_until
            ELSE IF TupleLessEq(match_until, at_until.v) THEN Return(2)
            ELSE Return(1)
        Start(at_start) ==
            IF ~at_start.ok THEN at_start
            ELSE IF TupleLess(at_start.v, match_start) THEN Return(-1)
            ELSE IF at_start.v = match_start THEN Return(0)
            ELSE Until(TimeInSuffix(transition, match_until.f))
    IN Start(TimeInSuffix(transition, match_start.f))

\* A variant that marks the examined transition but never clears the one it
\* supersedes.
KeepSupersededPrior(match, transitions, k, prior) ==
    LET State(ts, new_prior) ==
            [transitions |-> ts, prior |-> new_prior, exc |-> ""]
        Compared(cmp) ==
            IF cmp.v = 2
            THEN State([transitions EXCEPT ![k].is_active = Some(FALSE)],
                       prior)
            ELSE State([transitions EXCEPT ![k].is_active = Some(TRUE)],
                       IF cmp.v = 1 THEN prior ELSE k)
    IN Compared(_compare_transition_to_match(transitions[k], match))

\* transitions[k] is the transition being examined and prior is the index of
\* the running prior transition (0 for None): the code holds both by
\* reference and clears is_active of the superseded prior in place.
_process_transition_active_status(match, transitions, k, prior) ==
    LET SetActive(ts, i, b) == [ts EXCEPT ![i].is_active = Some(b)]
        State(ts, new_prior, exc) ==
            [transitions |-> ts, prior |-> new_prior, exc |-> exc]
        Compared(cmp) ==
            IF ~cmp.ok THEN State(transitions, prior, cmp.exc)
            ELSE IF cmp.v = 2
            THEN State(SetActive(transitions, k, FALSE), prior, "")
            ELSE IF cmp.v = 1
            THEN State(SetActive(transitions, k, TRUE), prior, "")
            ELSE IF cmp.v = 0
            THEN State(IF prior # 0
                       THEN SetActive(SetActive(transitions, k, TRUE),
                                      prior, FALSE)
                       ELSE SetActive(transitions, k, TRUE),
                       k, "")
            ELSE IF prior # 0
            THEN IF TupleLess(transitions[prior].transition_time,
                              transitions[k].transition_time)
                 THEN State(SetActive(SetActive(transitions, prior, FALSE),
                                      k, TRUE),
                            k, "")
                 ELSE State(transitions, prior, "")
            ELSE State(SetActive(transitions, k, TRUE), k, "")
    IN Compared(_compare_transition_to_match(transitions[k], match))

RECURSIVE ActiveStatusFrom(_, _, _, _)
ActiveStatusFrom(match, transitions, k, prior) ==
    IF k > Len(transitions)
    THEN [transitions |-> transitions, prior |-> prior, exc |-> ""]
    ELSE LET Processed(r) ==
                 IF r.exc # "" THEN r
                 ELSE ActiveStatusFrom(match, r.transitions, k + 1, r.prior)
         IN Processed(_process_transition_active_status(match, transitions,
                                                        k, prior))

\* Returns Return(active_transitions) or the exception.
_select_active_transitions(transitions, match) ==
    LET Clamped(r) ==
            IF /\ r.prior # 0
               /\ TupleLess(r.transitions[r.prior].transition_time,
                            match.start_date_time)
            THEN [r.transitions EXCEPT
                      ![r.prior].original_transition_time =
                          Some(r.transitions[r.prior].transition_time),
                      ![r.prior].transition_time = match.start_date_time]
            ELSE r.transitions
        Selected(r) ==
            IF r.exc # "" THEN Raise(r.exc)
            ELSE Return(SelectSeq(Clamped(r), LAMBDA t : Truthy(t.is_active)))
    IN Selected(ActiveStatusFrom(match, transitions, 1, 0))

(***************************************************************************)
(* Step 2: the transitions of each matching era                            *)
(***************************************************************************)
\* The part of the ZoneProcessor that the derivation writes: the transition
\* list, the storage counters, and the exception that ended it ("" if none).
Derivation(transitions, storage, exc) ==
    [transitions |-> transitions, transition_storage |-> storage, exc |-> exc]

_create_transitions_from_simple_match(p, match) ==
    Derivation(Append(p.transitions,
                      Transition(match, match.start_date_time, None)),
               push_transitions(p.transition_storage, 1), "")

_create_transitions_from_named_match(p, match) ==
    LET rules == match.zone_era.zone_policy.rules
        \* Pass 3 and the copy of the active transitions.
        Pass3(popped, selected) ==
            LET Checked(sorted3) ==
                    IF ~sorted3.ok
                    THEN Derivation(p.transitions, popped, sorted3.exc)
                    ELSE Derivation(p.transitions \o selected.v,
                                    push_transitions(popped,
                                                     Len(selected.v)),
                                    "")
            IN IF ~selected.ok
               THEN Derivation(p.transitions, popped, selected.exc)
               ELSE Checked(_check_transitions_sorted(selected.v))
        \* Pass 2.
        Pass2(popped, fixed) ==
            LET Checked(sorted2) ==
                    IF ~sorted2.ok
                    THEN Derivation(p.transitions, popped, sorted2.exc)
                    ELSE Pass3(popped,
                               _select_active_transitions(fixed.transitions,
                                                          match))
            IN IF fixed.exc # ""
               THEN Derivation(p.transitions, popped, fixed.exc)
               ELSE Checked(_check_transitions_sorted(fixed.transitions))
        \* Pass 1.
        Pass1(c) ==
            LET Checked(sorted1) ==
                    IF ~sorted1.ok
                    THEN Derivation(p.transitions, c.storage, sorted1.exc)
                    ELSE Pass2(pop_transitions(c.storage, Len(c.transitions)),
                               _fix_transition_times(c.transitions))
            IN IF c.exc # "" THEN Derivation(p.transitions, c.storage, c.exc)
               ELSE Checked(_check_transitions_sorted(c.transitions))
    IN Pass1(_find_candidate_transitions(p.transition_storage, match, rules))

_create_transitions_for_match(p, match) ==
    IF match.zone_era.zone_policy.name \in {"-", ":"}
    THEN _create_transitions_from_simple_match(p, match)
    ELSE _create_transitions_from_named_match(p, match)

RECURSIVE CreateTransitionsFrom(_, _, _)
CreateTransitionsFrom(p, matches, k) ==
    IF p.exc # "" \/ k > Len(matches) THEN p
    ELSE CreateTransitionsFrom(_create_transitions_for_match(p, matches[k]),
                               matches, k + 1)

_create_transitions(p, matches) == CreateTransitionsFrom(p, matches, 1)

(***************************************************************************)
(* Step 4: start and until times, and the epoch second                     *)
(***************************************************************************)
\* ACETIME_EPOCH = datetime(2000, 1, 1)
ACETIME_EPOCH == DateTime(2000, 1, 1, 0, 0, 0, 0)

\* int((dt - ACETIME_EPOCH).total_seconds()) of two naive datetimes.
SecondsSinceAcetimeEpoch(dt) ==
    (ToOrdinal(dt.year, dt.month, dt.day)
         - ToOrdinal(ACETIME_EPOCH.year, ACETIME_EPOCH.month,
                     ACETIME_EPOCH.day)) * SECONDS_PER_DAY
    + hms_to_seconds(dt.hour, dt.minute, dt.second)
    - hms_to_seconds(ACETIME_EPOCH.hour, ACETIME_EPOCH.minute,
                     ACETIME_EPOCH.second)

\* The list after the loop has handled elements k .. Len. prev is
\* transitions[k - 1], or transitions[1] itself when k = 1.
RECURSIVE StartUntilFrom(_, _)
StartUntilFrom(transitions, k) ==
    IF k > Len(transitions) THEN [transitions |-> transitions, exc |-> ""]
    ELSE
      LET transition == transitions[k]
          is_after_first == k > 1
          prev == IF is_after_first THEN transitions[k - 1] ELSE transition
          tt == transition.transition_time
          utc_offset_seconds ==
              offset_seconds(transition) + delta_seconds(transition)
          secs == tt.ss - offset_seconds(prev) - delta_seconds(prev)
                  + utc_offset_seconds
          Epoch(ts2, dt) ==
              IF ~dt.ok THEN [transitions |-> ts2, exc |-> dt.exc]
              ELSE StartUntilFrom(
                       [ts2 EXCEPT ![k].start_epoch_second =
                                       Some(SecondsSinceAcetimeEpoch(dt.v))],
                       k + 1)
          Start(ts1, st) ==
              IF ~st.ok THEN [transitions |-> ts1, exc |-> st.exc]
              ELSE Epoch([ts1 EXCEPT ![k].start_date_time =
                                         _datetime_to_datetuple(st.v, tt.f)],
                         DatePlusSeconds(
                             st.v.year, st.v.month, st.v.day,
                             hms_to_seconds(st.v.hour, st.v.minute,
                                            st.v.second)
                                 - utc_offset_seconds))
      IN Start(IF is_after_first
               THEN [transitions EXCEPT ![k - 1].until_date_time = tt]
               ELSE transitions,
               DatePlusSeconds(tt.y, tt.M, tt.d, secs))

\* _generate_start_until_times with the until of every transition but the
\* last set to the start_date_time of the next one, on the next one's clock.
GenerateStartUntilTimesJoined(transitions) ==
    IF Len(transitions) = 0
    THEN [transitions |-> transitions, exc |-> "IndexError"]
    ELSE
      LET n == Len(transitions)
          Joined(ts) ==
              [k \in 1 .. n |->
                  IF k = n THEN ts[k]
                  ELSE [ts[k] EXCEPT !.until_date_time =
                                         ts[k + 1].start_date_time]]
          Last(r, e) ==
              IF ~e.ok THEN [transitions |-> r.transitions, exc |-> e.exc]
              ELSE [transitions |->
                        Joined([r.transitions EXCEPT
                                    ![n].until_date_time = e.v[1]]),
                    exc |-> ""]
          Looped(r) ==
              IF r.exc # "" THEN r
              ELSE Last(r, _expand_date_tuple(
                               r.transitions[n].until_date_time,
                               offset_seconds(r.transitions[n]),
                               delta_seconds(r.transitions[n])))
      IN Looped(StartUntilFrom(transitions, 1))

_generate_start_until_times(transitions) ==
    IF Len(transitions) = 0
    THEN [transitions |-> transitions, exc |-> "IndexError"]
    ELSE
      LET n == Len(transitions)
          Last(r, e) ==
              IF ~e.ok THEN [transitions |-> r.transitions, exc |-> e.exc]
              ELSE [transitions |->
                        [r.transitions EXCEPT ![n].until_date_time = e.v[1]],
                    exc |-> ""]
          Looped(r) ==
              IF r.exc # "" THEN r
              ELSE Last(r, _expand_date_tuple(
                               r.transitions[n].until_date_time,
                               offset_seconds(r.transitions[n]),
                               delta_seconds(r.transitions[n])))
      IN Looped(StartUntilFrom(transitions, 1))

(***************************************************************************)
(* Step 5: abbreviations                                                   *)
(***************************************************************************)
\* str.find(sub) for a sub of one or two characters: the 0-based index of the
\* first occurrence, or -1.
Find(str, sub) ==
    LET First(hits) ==
            IF hits = {} THEN -1
            ELSE (CHOOSE i \in hits : \A j \in hits : i <= j) - 1
    IN First({i \in 1 .. (Len(str) - Len(sub) + 1) :
                 SubSeq(str, i, i + Len(sub) - 1) = sub})

\* format % arg with one str argument: '%s' consumes the argument, '%%' is a
\* literal percent sign; any other use of '%', a second '%s' or an unused
\* argument raises.
RECURSIVE PercentFrom(_, _, _, _, _)
PercentFrom(fmt, i, arg, used, out) ==
    IF i > Len(fmt)
    THEN IF used THEN Return(out) ELSE Raise("TypeError")
    ELSE IF fmt[i] # "%"
    THEN PercentFrom(fmt, i + 1, arg, used, Append(out, fmt[i]))
    ELSE IF i = Len(fmt) THEN Raise("ValueError")
    ELSE IF fmt[i + 1] = "%"
    THEN PercentFrom(fmt, i + 2, arg, used, Append(out, "%"))
    ELSE IF fmt[i + 1] = "s"
    THEN IF used THEN Raise("TypeError")
         ELSE PercentFrom(fmt, i + 2, arg, TRUE, out \o arg)
    ELSE Raise("ValueError")

PercentFormat(fmt, arg) == PercentFrom(fmt, 1, arg, FALSE, << >>)

\* A variant that substitutes the letter '-' as it is.
AbbrevOfKeepDash(transition) ==
    LET Formatted(fmt, index) ==
            IF index >= 0
            THEN IF delta_seconds(transition) = 0
                 THEN Return(SubSeq(fmt, 1, index))
                 ELSE Return(SubSeq(fmt, index + 2, Len(fmt)))
            ELSE IF Find(fmt, << "%", "s" >>) >= 0
            THEN PercentFormat(fmt, letter(transition))
            ELSE Return(fmt)
    IN Formatted(format(transition), Find(format(transition), << "/" >>))

\* The abbreviation of one transition.
AbbrevOf(transition) ==
    LET Formatted(fmt, index, letter0) ==
            IF index >= 0
            THEN IF delta_seconds(transition) = 0
                 THEN Return(SubSeq(fmt, 1, index))
                 ELSE Return(SubSeq(fmt, index + 2, Len(fmt)))
            ELSE IF Find(fmt, << "%", "s" >>) >= 0
            THEN PercentFormat(fmt, IF letter0 = << "-" >> THEN << >>
                                    ELSE letter0)
            ELSE Return(fmt)
    IN Formatted(format(transition), Find(format(transition), << "/" >>),
                 letter(transition))

RECURSIVE CalcAbbrevFrom(_, _)
CalcAbbrevFrom(transitions, k) ==
    IF k > Len(transitions) THEN [transitions |-> transitions, exc |-> ""]
    ELSE LET Named(a) ==
                 IF ~a.ok THEN [transitions |-> transitions, exc |-> a.exc]
                 ELSE CalcAbbrevFrom(
                          [transitions EXCEPT ![k].abbrev = Some(a.v)], k + 1)
         IN Named(AbbrevOf(transitions[k]))

_calc_abbrev(transitions) == CalcAbbrevFrom(transitions, 1)

(***************************************************************************)
(* Zone data: the ZoneInfo values the processors are built from            *)
(***************************************************************************)
ZoneRule(from_year, to_year, in_month, on_day_of_week, on_day_of_month, at_seconds, at_time_suffix, delta, rule_letter) ==
    [from_year |-> from_year, to_year |-> to_year, in_month |-> in_month,
     on_day_of_week |-> on_day_of_week, on_day_of_month |-> on_day_of_month,
     at_seconds |-> at_seconds, at_time_suffix |-> at_time_suffix,
     delta_seconds |-> delta, letter |-> rule_letter]

ZonePolicy(name, rules) == [name |-> name, rules |-> rules]

\* zone_policy is '-', ':' or a ZonePolicy; the two strings are modelled as
\* policies of that name without rules.
ZoneEra(offset, zone_policy, rules_delta_seconds, fmt, until_year, until_month, until_day, until_seconds, until_time_suffix) ==
    [offset_seconds |-> offset, zone_policy |-> zone_policy,
     rules_delta_seconds |-> rules_delta_seconds, format |-> fmt,
     until_year |-> until_year, until_month |-> until_month,
     until_day |-> until_day, until_seconds |-> until_seconds,
     until_time_suffix |-> until_time_suffix]

ZoneInfo(name, eras) == [name |-> name, eras |-> eras]

POLICY_NONE == ZonePolicy("-", << >>)
POLICY_FIXED == ZonePolicy(":", << >>)

\* America/Los_Angeles since 1967: Apr/Oct rules until 2006, Mar/Nov after.
ZONE_POLICY_US ==
    ZonePolicy("US", <<
        ZoneRule(1967, 2006, 10, 7, 0, 7200, "w", 0, << "S" >>),
        ZoneRule(1987, 2006, 4, 7, 1, 7200, "w", 3600, << "D" >>),
        ZoneRule(2007, MAX_TO_YEAR, 3, 7, 8, 7200, "w", 3600, << "D" >>),
        ZoneRule(2007, MAX_TO_YEAR, 11, 7, 1, 7200, "w", 0, << "S" >>) >>)

ZONE_INFO_America_Los_Angeles ==
    ZoneInfo("America/Los_Angeles", <<
        ZoneEra(-28800, ZONE_POLICY_US, 0, << "P", "%", "s", "T" >>,
                MAX_UNTIL_YEAR, 1, 1, 0, "w") >>)

\* Europe/London since 1996: both rules at 01:00 UTC.
ZONE_POLICY_EU ==
    ZonePolicy("EU", <<
        ZoneRule(1981, MAX_TO_YEAR, 3, 7, 0, 3600, "u", 3600, << "S" >>),
        ZoneRule(1996, MAX_TO_YEAR, 10, 7, 0, 3600, "u", 0, << "-" >>) >>)

ZONE_INFO_Europe_London ==
    ZoneInfo("Europe/London", <<
        ZoneEra(0, ZONE_POLICY_EU, 0,
                << "G", "M", "T", "/", "B", "S", "T" >>,
                MAX_UNTIL_YEAR, 1, 1, 0, "w") >>)

\* Africa/Abidjan: one era without rules.
ZONE_INFO_Africa_Abidjan ==
    ZoneInfo("Africa/Abidjan", <<
        ZoneEra(0, POLICY_NONE, 0, << "G", "M", "T" >>,
                MAX_UNTIL_YEAR, 1, 1, 0, "w") >>)

\* The shape of Pacific/Apia around its date-line change, moved from 2011 to
\* 2000: the first era ends at 24:00 of Dec 29 and the offset goes from
\* -11:00 to +13:00 while the rules stay in force.
ZONE_POLICY_WS ==
    ZonePolicy("WS", <<
        ZoneRule(1999, 1999, 9, 7, 0, 0, "w", 3600, << "D" >>),
        ZoneRule(2000, 2000, 4, 6, 1, 14400, "w", 0, << "S" >>),
        ZoneRule(2000, 2000, 9, 6, 0, 10800, "w", 3600, << "D" >>),
        ZoneRule(2001, 2010, 4, 7, 1, 14400, "w", 0, << "S" >>),
        ZoneRule(2001, 2009, 9, 7, 0, 10800, "w", 3600, << "D" >>) >>)

ZONE_INFO_Date_Line ==
    ZoneInfo("Date_Line", <<
        ZoneEra(-39600, ZONE_POLICY_WS, 0, << "W", "%", "s", "T" >>,
                2000, 12, 29, 86400, "w"),
        ZoneEra(46800, ZONE_POLICY_WS, 0, << "W", "%", "s", "T" >>,
                MAX_UNTIL_YEAR, 1, 1, 0, "w") >>)

\* An era with a fixed DST delta (policy ':') that ends at a UTC time and is
\* followed by an era without DST: the era boundary is a fall back.
ZONE_INFO_Fixed_Delta ==
    ZoneInfo("Fixed_Delta", <<
        ZoneEra(7200, POLICY_FIXED, 3600, << "E", "E", "S", "T" >>,
                2000, 6, 1, 0, "u"),
        ZoneEra(7200, POLICY_NONE, 0, << "E", "E", "T" >>,
                MAX_UNTIL_YEAR, 1, 1, 0, "w") >>)

\* A policy with two rules on the same day of June, the later one listed
\* first: at 03:00 the clock goes forward, at 01:00 it (re)enters standard
\* time.
ZONE_POLICY_SAME_DAY ==
    ZonePolicy("SameDay", <<
        ZoneRule(1990, MAX_TO_YEAR, 1, 0, 1, 0, "w", 0, << "S" >>),
        ZoneRule(1990, MAX_TO_YEAR, 6, 0, 10, 10800, "w", 3600, << "D" >>),
        ZoneRule(1990, MAX_TO_YEAR, 6, 0, 10, 3600, "w", 0, << "S" >>) >>)

ZONE_INFO_Same_Day ==
    ZoneInfo("Same_Day", <<
        ZoneEra(3600, ZONE_POLICY_SAME_DAY, 0, << "C", "%", "s", "T" >>,
                MAX_UNTIL_YEAR, 1, 1, 0, "w") >>)

\* A zone whose rules all begin in 2001: the windows of the years before
\* 2001 hold no transition of them, and that of 2001 none before March.
ZONE_POLICY_LATE ==
    ZonePolicy("Late", <<
        ZoneRule(2001, MAX_TO_YEAR, 3, 7, 0, 7200, "w", 3600, << "D" >>),
        ZoneRule(2001, MAX_TO_YEAR, 10, 7, 0, 10800, "w", 0, << "S" >>) >>)

ZONE_INFO_Late_Rules ==
    ZoneInfo("Late_Rules", <<
        ZoneEra(3600, ZONE_POLICY_LATE, 0, << "L", "%", "s", "T" >>,
                MAX_UNTIL_YEAR, 1, 1, 0, "w") >>)

\* Three eras under the EU rules: the first ends at the very instant of the
\* October 2000 rule transition (01:00 UTC), the second twelve days later.
ZONE_INFO_Three_Eras ==
    ZoneInfo("Three_Eras", <<
        ZoneEra(0, ZONE_POLICY_EU, 0,
                << "G", "M", "T", "/", "B", "S", "T" >>,
                2000, 10, 29, 3600, "u"),
        ZoneEra(3600, ZONE_POLICY_EU, 0, << "C", "E", "%", "s", "T" >>,
                2000, 11, 10, 0, "w"),
        ZoneEra(7200, ZONE_POLICY_EU, 0, << "E", "E", "%", "s", "T" >>,
                MAX_UNTIL_YEAR, 1, 1, 0, "w") >>)

ZONE_REGISTRY ==
    << ZONE_INFO_America_Los_Angeles, ZONE_INFO_Europe_London,
       ZONE_INFO_Africa_Abidjan, ZONE_INFO_Date_Line, ZONE_INFO_Fixed_Delta,
       ZONE_INFO_Same_Day, ZONE_INFO_Late_Rules, ZONE_INFO_Three_Eras >>

ZONE_NAMES ==
    << "America/Los_Angeles", "Europe/London", "Africa/Abidjan", "Date_Line",
       "Fixed_Delta", "Same_Day", "Late_Rules", "Three_Eras" >>

ZONE_COUNT == Len(ZONE_NAMES)

(***************************************************************************)
(* The years of the calls                                                  *)
(***************************************************************************)
\* The last year of the civil years the calls ask for; the first is two
\* years before it.
MaxYear == 2001

\* Half an hour, the step by which the calls move into an interval.
HalfHour == SECONDS_PER_DAY \div 48

\* self.year of a processor nobody has initialised.
FreshYear == 0

\* The year in which the last rules of ZONE_POLICY_US begin, and the year
\* after it.
LastRuleYears ==
    LET Around(from_year) == {from_year, from_year + 1}
    IN Around(ZONE_POLICY_US.rules[Len(ZONE_POLICY_US.rules)].from_year)

CallYears == {FreshYear} \cup ((MaxYear - 2) .. MaxYear) \cup LastRuleYears

\* Seconds from ACETIME_EPOCH to the start of EPOCH_YEAR.
EpochShift ==
    SECONDS_PER_DAY
    * (ToOrdinal(EPOCH_YEAR, 1, 1) - ToOrdinal(ACETIME_EPOCH.year, 1, 1))

\* The years a lookup may initialise: the civil years of the calls and, for
\* instants counted from ACETIME_EPOCH, the years they denote counted from
\* EPOCH_YEAR.
LookupYears ==
    ((MaxYear - 2) .. MaxYear)
    \cup { y + (EPOCH_YEAR - ACETIME_EPOCH.year) : y \in (MaxYear - 2) .. MaxYear }

TableYears == CallYears \cup LookupYears

(***************************************************************************)
(* ZoneProcessor.init_for_year                                             *)
(***************************************************************************)
\* Steps 1 to 5 of init_for_year, run on the state that the four assignments
\* at its head leave behind: no transitions and the storage counters in
\* storage0. The result holds what the run wrote to self.matches,
\* self.transitions and self.transition_storage, and the exception that ended
\* it ("" when it completed).
DeriveSteps(zone_info, year, storage0) ==
    LET start_ym == YearMonthTuple(year - 1, 12)
        until_ym == YearMonthTuple(year + 1, 2)
        Step2(found, created) ==
            LET Result(r) ==
                    [matches |-> found, transitions |-> r.transitions,
                     transition_storage |-> created.transition_storage,
                     exc |-> r.exc]
                Step5(timed) ==
                    IF timed.exc # "" THEN Result(timed)
                    ELSE Result(_calc_abbrev(timed.transitions))
                Step4(fixed) ==
                    IF fixed.exc # "" THEN Result(fixed)
                    ELSE Step5(_generate_start_until_times(fixed.transitions))
            IN IF created.exc # "" THEN Result(created)
               ELSE Step4(_fix_transition_times(created.transitions))
        Step1(found) ==
            Step2(found,
                  _create_transitions(Derivation(<< >>, storage0, ""), found))
    IN Step1(_find_matches(zone_info, start_ym, until_ym))

\* The steps read nothing of the processor but its zone_info, so a derivation
\* is a function of the zone and the year. The table holds the derivations of
\* the registered zones for the years of the calls, each computed once.
DerivationTable ==
    [z \in 1 .. ZONE_COUNT, y \in TableYears |->
        DeriveSteps(ZONE_REGISTRY[z], y, clear)]

\* The place of a registered zone in ZONE_REGISTRY.
ZoneIndex(zone_info) ==
    CHOOSE z \in 1 .. ZONE_COUNT : ZONE_NAMES[z] = zone_info.name

Derived(zone_info, year) == DerivationTable[ZoneIndex(zone_info), year]

\* The cache test at the head of init_for_year.
IsCached(cached_year, year) == cached_year = year

\* init_for_year with the cache test placed after the assignments that
\* clear the lists: a cache hit returns with the lists empty.
InitForYearClearsFirst(self, year) ==
    LET Filled(d) ==
            [self |-> [self EXCEPT !.year = year,
                                   !.matches = d.matches,
                                   !.transitions = d.transitions,
                                   !.transition_storage =
                                       d.transition_storage],
             exc |-> d.exc,
             recomputed |-> TRUE]
    IN IF IsCached(self.year, year)
       THEN [self |-> [self EXCEPT !.matches = << >>,
                                   !.transitions = << >>,
                                   !.transition_storage = clear],
             exc |-> "", recomputed |-> FALSE]
       ELSE Filled(Derived(self.zone_info, year))

\* self is [zone_info, use_python_transition, year, matches, transitions,
\* transition_storage]. Returns the processor after the call, the exception
\* the call raised ("" if none) and whether it ran the derivation. The year
\* and the cleared lists are assigned before the steps run, so they stay when
\* a step raises.
init_for_year(self, year) ==
    LET Filled(d) ==
            [self |-> [self EXCEPT !.year = year,
                                   !.matches = d.matches,
                                   !.transitions = d.transitions,
                                   !.transition_storage =
                                       d.transition_storage],
             exc |-> d.exc,
             recomputed |-> TRUE]
    IN IF IsCached(self.year, year)
       THEN [self |-> self, exc |-> "", recomputed |-> FALSE]
       ELSE Filled(Derived(self.zone_info, year))

BufferSizeInfo(active_size, buffer_size) ==
    [active_size |-> active_size, buffer_size |-> buffer_size]

get_buffer_sizes(self) ==
    BufferSizeInfo(Len(self.transitions),
                   self.transition_storage.index_beyond)

\* is_terminal_year(year): whether no later year can change the buffer
\* sizes. A year after the last era ends is terminal; a year before the last
\* era begins is not; a year of a last era without a policy is; a year of a
\* last era with a policy is terminal when no rule begins after it and no
\* finite rule (to_year below MAX_TO_YEAR) covers it.
is_terminal_year(zone_info, year) ==
    LET eras == zone_info.eras
        last_era == eras[Len(eras)]
        rules == last_era.zone_policy.rules
    IN IF year > last_era.until_year THEN TRUE
       ELSE IF Len(eras) > 1 /\ year < eras[Len(eras) - 1].until_year
       THEN FALSE
       ELSE IF last_era.zone_policy.name \in {"-", ":"} THEN TRUE
       ELSE IF \E k \in DOMAIN rules : rules[k].from_year > year THEN FALSE
       ELSE ~\E k \in DOMAIN rules :
                /\ rules[k].to_year # MAX_TO_YEAR
                /\ rules[k].from_year <= year
                /\ year <= rules[k].to_year

(***************************************************************************)
(* Lookup by epoch seconds                                                 *)
(***************************************************************************)
\* SECONDS_SINCE_UNIX_EPOCH is the Unix time of EPOCH_YEAR-01-01T00:00:00Z,
\* a whole number of days; it is kept in days because the number of seconds
\* (2524608000) does not fit the 32-bit integers of the model checker.
DAYS_SINCE_UNIX_EPOCH == ToOrdinal(EPOCH_YEAR, 1, 1) - ToOrdinal(1970, 1, 1)

\* datetime.utcfromtimestamp(epoch_seconds + SECONDS_SINCE_UNIX_EPOCH).year
\* floor((s + 86400 * D) / 86400) = floor(s / 86400) + D
UtcYearOfEpochSeconds(epoch_seconds) ==
    LET OnDay(n) ==
            IF n < 1 \/ n > DaysBeforeYear(PY_MAXYEAR + 1)
            THEN Raise("ValueError")
            ELSE Return(YearOfOrdinal(n))
    IN OnDay(ToOrdinal(1970, 1, 1) + DAYS_SINCE_UNIX_EPOCH
             + (epoch_seconds \div SECONDS_PER_DAY))

_init_for_second(self, epoch_seconds) ==
    LET InYear(ldt_year) ==
            IF ldt_year.ok THEN init_for_year(self, ldt_year.v)
            ELSE [self |-> self, exc |-> ldt_year.exc, recomputed |-> FALSE]
    IN InYear(UtcYearOfEpochSeconds(epoch_seconds))

\* _determine_fold with the last second of the overlap moved past its end:
\* the instant at which the overlap closes still counts as inside it.
DetermineFoldClosedOverlap(transitions, epoch_seconds, matching_index) ==
    IF matching_index < 1 THEN Return(0)
    ELSE
      LET seconds_from_zone_era_start ==
              epoch_seconds
              - transitions[matching_index + 1].start_epoch_second[1]
          Overlap(overlap_interval) ==
              IF ~overlap_interval.ok THEN overlap_interval
              ELSE IF overlap_interval.v <= 0 THEN Return(0)
              ELSE IF seconds_from_zone_era_start > overlap_interval.v
              THEN Return(0)
              ELSE Return(1)
      IN Overlap(_subtract_date_tuple(
                     transitions[matching_index].until_date_time,
                     transitions[matching_index + 1].start_date_time))

_determine_fold(transitions, epoch_seconds, matching_index) ==
    IF matching_index < 1 THEN Return(0)
    ELSE
      LET seconds_from_zone_era_start ==
              epoch_seconds
              - transitions[matching_index + 1].start_epoch_second[1]
          Overlap(overlap_interval) ==
              IF ~overlap_interval.ok THEN overlap_interval
              ELSE IF overlap_interval.v <= 0 THEN Return(0)
              ELSE IF seconds_from_zone_era_start >= overlap_interval.v
              THEN Return(0)
              ELSE Return(1)
      IN Overlap(_subtract_date_tuple(
                     transitions[matching_index].until_date_time,
                     transitions[matching_index + 1].start_date_time))

\* The scan of _find_transition_for_seconds from 0-based index i: the index
\* it ends with, or the TypeError of comparing a start_epoch_second that is
\* still None.
RECURSIVE ScanSecondsFrom(_, _, _, _)
ScanSecondsFrom(transitions, epoch_seconds, i, matching_index) ==
    IF i >= Len(transitions) THEN Return(matching_index)
    ELSE IF transitions[i + 1].start_epoch_second = None
    THEN Raise("TypeError")
    ELSE IF transitions[i + 1].start_epoch_second[1] > epoch_seconds
    THEN Return(matching_index)
    ELSE ScanSecondsFrom(transitions, epoch_seconds, i + 1, i)

TransitionMatch(transition, fold) ==
    [transition |-> transition, fold |-> fold]

\* Returns Return(Optional[TransitionMatch]) or the exception.
_find_transition_for_seconds(transitions, epoch_seconds) ==
    LET Folded(matching_index, fold) ==
            IF ~fold.ok THEN fold
            ELSE Return(Some(TransitionMatch(transitions[matching_index + 1],
                                             fold.v)))
        Scanned(matching_index) ==
            IF ~matching_index.ok THEN matching_index
            ELSE IF matching_index.v = -1 THEN Return(None)
            ELSE Folded(matching_index.v,
                        _determine_fold(transitions, epoch_seconds,
                                        matching_index.v))
    IN Scanned(ScanSecondsFrom(transitions, epoch_seconds, 0, -1))

\* Returns [self, ret, recomputed]: ret is Return(Optional[OffsetInfo]) or
\* the exception.
get_timezone_info_for_seconds(self, epoch_seconds) ==
    LET Found(tmatch) ==
            IF ~tmatch.ok THEN tmatch
            ELSE IF tmatch.v = None THEN Return(None)
            ELSE Return(Some(_to_offset_info(tmatch.v[1].transition,
                                             tmatch.v[1].fold)))
        Initialized(i) ==
            [self |-> i.self,
             recomputed |-> i.recomputed,
             ret |-> IF i.exc # "" THEN Raise(i.exc)
                     ELSE Found(_find_transition_for_seconds(
                                    i.self.transitions, epoch_seconds))]
    IN Initialized(_init_for_second(self, epoch_seconds))

(***************************************************************************)
(* Lookup by civil date-time                                               *)
(***************************************************************************)
\* The C++ algorithm: the last transition before the first one that starts
\* after dt. Returns an Optional[Transition].
RECURSIVE ScanCppFrom(_, _, _, _)
ScanCppFrom(transitions, dt_time, k, match) ==
    IF k > Len(transitions) THEN match
    ELSE IF TupleLess(dt_time, transitions[k].start_date_time) THEN match
    ELSE ScanCppFrom(transitions, dt_time, k + 1, Some(transitions[k]))

\* The C++ scan stopping one transition early: a transition that starts
\* exactly at dt counts as starting after it.
RECURSIVE ScanCppBeforeStart(_, _, _, _)
ScanCppBeforeStart(transitions, dt_time, k, match) ==
    IF k > Len(transitions) THEN match
    ELSE IF TupleLessEq(dt_time, transitions[k].start_date_time) THEN match
    ELSE ScanCppBeforeStart(transitions, dt_time, k + 1,
                            Some(transitions[k]))

FindTransitionForDatetimeBeforeStart(transitions, dt) ==
    ScanCppBeforeStart(transitions, _datetime_to_datetuple(dt, "w"), 1, None)

_find_transition_for_datetime_cpp(transitions, dt) ==
    ScanCppFrom(transitions, _datetime_to_datetuple(dt, "w"), 1, None)

\* The PEP 495 algorithm. prev_exact and prev_transition are
\* Optional[Transition].
RECURSIVE ScanPythonFrom(_, _, _, _, _, _)
ScanPythonFrom(transitions, dt_time, fold, k, prev_exact, prev_transition) ==
    IF k > Len(transitions)
    THEN IF prev_exact # None THEN prev_exact ELSE prev_transition
    ELSE
      LET transition == transitions[k]
          start_time == transition.start_date_time
          until_time == transition.until_date_time
          exact_match == /\ TupleLessEq(start_time, dt_time)
                         /\ TupleLess(dt_time, until_time)
      IN IF exact_match
         THEN IF fold = 0 THEN Some(transition)
              ELSE IF prev_exact # None THEN Some(transition)
              ELSE ScanPythonFrom(transitions, dt_time, fold, k + 1,
                                  Some(transition), Some(transition))
         ELSE IF TupleLess(dt_time, start_time)
         THEN IF prev_exact # None THEN prev_exact
              ELSE IF fold = 0 THEN prev_transition
              ELSE Some(transition)
         ELSE ScanPythonFrom(transitions, dt_time, fold, k + 1,
                             prev_exact, Some(transition))

_find_transition_for_datetime_python(transitions, dt) ==
    ScanPythonFrom(transitions, _datetime_to_datetuple(dt, "w"), dt.fold, 1,
                   None, None)

_find_transition_for_datetime(self, dt) ==
    IF self.use_python_transition
    THEN _find_transition_for_datetime_python(self.transitions, dt)
    ELSE _find_transition_for_datetime_cpp(self.transitions, dt)

\* Returns [self, ret, recomputed]: ret is Return(Optional[OffsetInfo]) or
\* the exception.
get_timezone_info_for_datetime(self, dt) ==
    LET Found(transition) ==
            IF transition = None THEN Return(None)
            ELSE Return(Some(_to_offset_info(transition[1], dt.fold)))
        Initialized(i) ==
            [self |-> i.self,
             recomputed |-> i.recomputed,
             ret |-> IF i.exc # "" THEN Raise(i.exc)
                     ELSE Found(_find_transition_for_datetime(i.self, dt))]
    IN Initialized(init_for_year(self, dt.year))

(***************************************************************************)
(* The processor as a state machine                                        *)
(***************************************************************************)
Offsets == {-1, 0, HalfHour}

\* The attributes of one ZoneProcessor, and the last call made on it.
VARIABLES
    self_zone_info,              \* self.zone_info
    self_use_python_transition,  \* self.use_python_transition
    self_year,                   \* self.year
    self_matches,                \* self.matches
    self_transitions,            \* self.transitions
    self_transition_storage,     \* self.transition_storage
    call,                        \* the last call: its name and arguments
    ret,                         \* what the last call returned or raised
    recomputed                   \* whether the last call ran the derivation

vars ==
    << self_zone_info, self_use_python_transition, self_year, self_matches,
       self_transitions, self_transition_storage, call, ret, recomputed >>

Self ==
    [zone_info |-> self_zone_info,
     use_python_transition |-> self_use_python_transition,
     year |-> self_year, matches |-> self_matches,
     transitions |-> self_transitions,
     transition_storage |-> self_transition_storage]

Call(op, arg) == [op |-> op, arg |-> arg]

\* ZoneProcessor(zone_info, use_python_transition)
Init ==
    /\ \E z \in 1 .. ZONE_COUNT : self_zone_info = ZONE_REGISTRY[z]
    /\ self_use_python_transition \in BOOLEAN
    /\ self_year = FreshYear
    /\ self_matches = << >>
    /\ self_transitions = << >>
    /\ self_transition_storage = clear
    /\ call = Call("__init__", << >>)
    /\ ret = Return(None)
    /\ recomputed = FALSE

Store(self) ==
    /\ self_year' = self.year
    /\ self_matches' = self.matches
    /\ self_transitions' = self.transitions
    /\ self_transition_storage' = self.transition_storage
    /\ UNCHANGED << self_zone_info, self_use_python_transition >>

\* The processor and the result that a call leaves behind; r is
\* [self, recomputed, ret].
Returned(r) ==
    /\ Store(r.self)
    /\ ret' = r.ret
    /\ recomputed' = r.recomputed

\* init_for_year returns None.
Outcome(r) ==
    [self |-> r.self, recomputed |-> r.recomputed,
     ret |-> IF r.exc = "" THEN Return(None) ELSE Raise(r.exc)]

InitForYear(y) ==
    /\ call' = Call("init_for_year", << y >>)
    /\ Returned(Outcome(init_for_year(Self, y)))

\* The civil date-times the calls ask about: around the start and the end of
\* every cached transition, and around the first second of the cached year
\* and of the year after it.
DateTimeOf(dt, fold) ==
    LET hms == seconds_to_hms(dt.ss)
    IN DateTime(dt.y, dt.M, dt.d, hms[1], hms[2], hms[3], fold)

CivilInputs ==
    LET bases ==
            { self_transitions[k].start_date_time :
                k \in DOMAIN self_transitions }
            \cup { self_transitions[k].until_date_time :
                     k \in DOMAIN self_transitions }
            \cup { DateTuple(y, 1, 1, 0, "w") :
                     y \in {self_year, self_year + 1} \cap LookupYears }
        Valid(moved) ==
            { DateTimeOf(n.v, fold) :
                n \in { m \in moved : m.ok }, fold \in {0, 1} }
    IN Valid({ _normalize_date_tuple(
                   DateTuple(b.y, b.M, b.d, b.ss + d, b.f)) :
                 b \in bases, d \in Offsets })

GetTimezoneInfoForDatetime(dt) ==
    /\ dt.year \in LookupYears
    /\ call' = Call("get_timezone_info_for_datetime", << dt >>)
    /\ Returned(get_timezone_info_for_datetime(Self, dt))

\* The instants the calls ask about: around the start of every cached
\* transition, as counted from ACETIME_EPOCH and as counted from EPOCH_YEAR.
CachedStarts ==
    { self_transitions[k].start_epoch_second[1] :
        k \in { j \in DOMAIN self_transitions :
                  self_transitions[j].start_epoch_second # None } }

InstantInputs ==
    { e + d - shift : e \in CachedStarts, d \in Offsets \cup {2 * HalfHour},
                      shift \in {0, EpochShift} }

GetTimezoneInfoForSeconds(epoch_seconds) ==
    /\ LET InYears(y) == y.ok /\ y.v \in LookupYears
       IN InYears(UtcYearOfEpochSeconds(epoch_seconds))
    /\ call' = Call("get_timezone_info_for_seconds", << epoch_seconds >>)
    /\ Returned(get_timezone_info_for_seconds(Self, epoch_seconds))

\* The scan of the cached list alone, as get_timezone_info_for_seconds runs
\* it after _init_for_second.
FindTransitionForSeconds(epoch_seconds) ==
    /\ call' = Call("_find_transition_for_seconds", << epoch_seconds >>)
    /\ ret' = _find_transition_for_seconds(self_transitions, epoch_seconds)
    /\ recomputed' = FALSE
    /\ UNCHANGED << self_zone_info, self_use_python_transition, self_year,
                    self_matches, self_transitions, self_transition_storage >>

Next ==
    \/ \E y \in CallYears : InitForYear(y)
    \/ \E dt \in CivilInputs : GetTimezoneInfoForDatetime(dt)
    \/ \E s \in InstantInputs : GetTimezoneInfoForSeconds(s)
    \/ \E s \in InstantInputs : FindTransitionForSeconds(s)

Spec == Init /\ [][Next]_vars

(***************************************************************************)
(* Lookup by epoch seconds: the staircase and the fold                     *)
(***************************************************************************)
\* The calls that scan the cached list for an instant.
SecondsLookups ==
    {"get_timezone_info_for_seconds", "_find_transition_for_seconds"}

\* The places of the cached transitions that start at or before the instant.
StartedBy(epoch_seconds) ==
    { k \in DOMAIN self_transitions :
        /\ self_transitions[k].start_epoch_second # None
        /\ self_transitions[k].start_epoch_second[1] <= epoch_seconds }

\* The last of a non-empty set of places.
LastOf(places) == CHOOSE k \in places : \A j \in places : j <= k

\* The transition a successful lookup answered with, whatever it returned:
\* _find_transition_for_seconds returns the transition itself, the two
\* public lookups the OffsetInfo made of it.
Answers(transition) ==
    IF call.op = "_find_transition_for_seconds"
    THEN ret.v[1].transition = transition
    ELSE /\ ret.v[1].total_offset
               = offset_seconds(transition) + delta_seconds(transition)
         /\ ret.v[1].utc_offset = offset_seconds(transition)
         /\ ret.v[1].dst_offset = delta_seconds(transition)
         /\ ret.v[1].abbrev = transition.abbrev

\* C1: a lookup by epoch seconds s on a cached list answers with
\* transitions[i], i the largest index with start_epoch_second <= s, and with
\* None exactly when there is no such index.
SecondsLookupIsStaircase ==
    (call.op \in SecondsLookups /\ ret.ok) =>
        IF StartedBy(call.arg[1]) = {} THEN ret.v = None
        ELSE /\ ret.v # None
             /\ Answers(self_transitions[LastOf(StartedBy(call.arg[1]))])

\* The fold of a successful lookup by seconds.
ReturnedFold == ret.v[1].fold

\* The place in the cached list that the scan of the last lookup ended on.
MatchedPlace ==
    ScanSecondsFrom(self_transitions, call.arg[1], 0, -1).v + 1

\* until of the transition before place k less start of the one at k, in
\* seconds.
OverlapAt(k) ==
    _subtract_date_tuple(self_transitions[k - 1].until_date_time,
                         self_transitions[k].start_date_time).v

CivilLookup == call.op = "get_timezone_info_for_datetime"

\* The wall time and the fold that the last civil lookup asked about.
AskedTime == _datetime_to_datetuple(call.arg[1], "w")

AskedFold == call.arg[1].fold

\* t lies in the wall interval [start, until) of the cached transition at
\* place k.
Inside(k, t) ==
    /\ TupleLessEq(self_transitions[k].start_date_time, t)
    /\ TupleLess(t, self_transitions[k].until_date_time)

\* t lies in the gap before place k: at or after the until of the
\* transition before it and before its own start.
InGapBefore(k, t) ==
    /\ TupleLessEq(self_transitions[k - 1].until_date_time, t)
    /\ TupleLess(t, self_transitions[k].start_date_time)

\* C3: for a civil dt inside the wall intervals of two consecutive active
\* transitions, the civil lookup answers with the earlier one when
\* dt.fold = 0 and with the later one when dt.fold = 1.
OverlapRule ==
    (CivilLookup /\ ret.ok) =>
        \A k \in 1 .. Len(self_transitions) - 1 :
            (Inside(k, AskedTime) /\ Inside(k + 1, AskedTime)) =>
                /\ ret.v # None
                /\ Answers(self_transitions[IF AskedFold = 0 THEN k
                                            ELSE k + 1])

\* C4: for a civil dt in the gap between the active transitions i-1 and i,
\* the civil lookup answers with transition i-1 when dt.fold = 0 and with
\* transition i when dt.fold = 1.
GapLaw ==
    (CivilLookup /\ ret.ok) =>
        \A k \in 2 .. Len(self_transitions) :
            InGapBefore(k, AskedTime) =>
                /\ ret.v # None
                /\ Answers(self_transitions[IF AskedFold = 0 THEN k - 1
                                            ELSE k])

\* The total UTC offset of a transition.
TotalOffset(transition) ==
    offset_seconds(transition) + delta_seconds(transition)

\* C5 as stated: for every active transition i and every civil dt inside its
\* wall interval with dt.fold = 0, the civil lookup returns the total offset
\* of transition i.
TotalOffsetOfEveryInterval ==
    (CivilLookup /\ ret.ok /\ AskedFold = 0) =>
        \A k \in DOMAIN self_transitions :
            Inside(k, AskedTime) =>
                /\ ret.v # None
                /\ ret.v[1].total_offset = TotalOffset(self_transitions[k])

\* The places whose wall interval holds t.
Holding(t) == { k \in DOMAIN self_transitions : Inside(k, t) }

\* C5, amended: for a civil dt with dt.fold = 0 that lies inside the wall
\* interval of exactly one active transition i, the civil lookup returns the
\* total offset of transition i.
TotalOffsetOfOnlyInterval ==
    (CivilLookup /\ ret.ok /\ AskedFold = 0) =>
        \A k \in DOMAIN self_transitions :
            Holding(AskedTime) = {k} =>
                /\ ret.v # None
                /\ ret.v[1].total_offset = TotalOffset(self_transitions[k])

\* A civil lookup with fold 0 of a time that only one interval holds, in a
\* year whose transitions differ in total offset.
TotalOffsetOfOnlyIntervalWitness ==
    /\ CivilLookup
    /\ ret.ok
    /\ AskedFold = 0
    /\ \E k \in DOMAIN self_transitions :
         /\ Holding(AskedTime) = {k}
         /\ ret.v # None
         /\ ret.v[1].total_offset = TotalOffset(self_transitions[k])
         /\ \E j \in DOMAIN self_transitions :
              TotalOffset(self_transitions[j])
                  # TotalOffset(self_transitions[k])

(***************************************************************************)
(* Round trip: civil time to epoch seconds and back                        *)
(***************************************************************************)
\* The epoch seconds of the civil date-time dt taken at total_offset, counted
\* from ACETIME_EPOCH as start_epoch_second is.
EpochSecondsOf(dt, total_offset) ==
    SecondsSinceAcetimeEpoch(dt) - total_offset

\* The same instant counted from either epoch of the program: ACETIME_EPOCH,
\* or the start of EPOCH_YEAR as common.to_epoch_seconds counts.
BothEpochs(s) == {s, s - EpochShift}

\* The last call was a civil lookup with fold 0 of a time inside the wall
\* interval of a cached transition, and it found a transition.
CivilLookupInsideInterval ==
    /\ CivilLookup
    /\ ret.ok
    /\ ret.v # None
    /\ AskedFold = 0
    /\ Holding(AskedTime) # {}

\* C6: after a civil lookup with fold 0 of a dt inside [start_i, until_i),
\* get_timezone_info_for_seconds of dt converted with the returned total
\* offset returns the same total, standard and DST offsets and abbreviation.
\* A round trip is a step from one lookup to the other, so a step that
\* leaves call.op alone is none.
RoundTrip ==
    [][(/\ CivilLookupInsideInterval
        /\ call'.op = "get_timezone_info_for_seconds"
        /\ call'.arg[1]
             \in BothEpochs(EpochSecondsOf(call.arg[1],
                                            ret.v[1].total_offset)))
       => /\ ret'.ok
          /\ ret'.v # None
          /\ ret'.v[1].total_offset = ret.v[1].total_offset
          /\ ret'.v[1].utc_offset = ret.v[1].utc_offset
          /\ ret'.v[1].dst_offset = ret.v[1].dst_offset
          /\ ret'.v[1].abbrev = ret.v[1].abbrev]_(call.op)

(***************************************************************************)
(* The cache of init_for_year                                              *)
(***************************************************************************)
\* What init_for_year caches.
Cached ==
    << self_year, self_matches, self_transitions, self_transition_storage >>

\* C7: init_for_year(Y) runs the derivation exactly when Y is not the cached
\* year, so of two init_for_year(Y) calls in a row only the first can run
\* it: the second does not recompute, returns normally and leaves year,
\* matches, transitions and the storage counters as the first left them.
CacheIsIdempotent ==
    [][call'.op = "init_for_year"
       => /\ recomputed' = (self_year # call'.arg[1])
          /\ (call.op = "init_for_year" /\ call.arg = call'.arg)
               => /\ recomputed' = FALSE
                  /\ ret' = Return(None)
                  /\ Cached' = Cached]_vars

\* A second init_for_year(Y) has returned, after a first that ran the
\* derivation of a year with transitions; recomputed tells the two apart
\* because the second call leaves everything else as it was.
CacheIsIdempotentWitness ==
    /\ call.op = "init_for_year"
    /\ call.arg[1] = self_year
    /\ recomputed = FALSE
    /\ Len(self_transitions) > 1

\* The last call was an init_for_year that returned normally.
InitForYearCompleted == call.op = "init_for_year" /\ ret.ok

\* C8: after any sequence of init_for_year calls from construction, the
\* cached matches, transitions and buffer sizes are those derived from
\* scratch for the year of the last call.
CacheIsFreshDerivation ==
    call.op = "init_for_year" =>
        LET Same(d) ==
                /\ self_matches = d.matches
                /\ self_transitions = d.transitions
                /\ get_buffer_sizes(Self)
                     = BufferSizeInfo(Len(d.transitions),
                                      d.transition_storage.index_beyond)
        IN Same(DeriveSteps(self_zone_info, call.arg[1], clear))

(***************************************************************************)
(* The active transitions after init_for_year                              *)
(***************************************************************************)
\* C9: after init_for_year(Y) completes the active transitions are sorted by
\* start_epoch_second and by the UTC form of the transition time.
ActiveTransitionsSorted ==
    InitForYearCompleted =>
        \A i, j \in DOMAIN self_transitions :
            i < j =>
                /\ self_transitions[i].start_epoch_second[1]
                     <= self_transitions[j].start_epoch_second[1]
                /\ TupleLessEq(self_transitions[i].transition_time_u[1],
                               self_transitions[j].transition_time_u[1])

\* C10 as stated: after init_for_year(Y), for every i > 0 the wall tuple
\* transitions[i-1].until_date_time equals transitions[i].start_date_time.
UntilIsNextStart ==
    InitForYearCompleted =>
        \A k \in 2 .. Len(self_transitions) :
            self_transitions[k - 1].until_date_time
                = self_transitions[k].start_date_time

\* C10, amended: after init_for_year(Y), for every i > 0 the wall tuple
\* transitions[i-1].until_date_time equals transitions[i].transition_time,
\* the time of the change on the clock of transition i-1. It differs from
\* transitions[i].start_date_time, the same time on the clock of transition
\* i, whenever the two total offsets differ, and equals it when they are
\* equal and the transition time is a time of day (0 <= ss < 86400).
UntilIsNextTransitionTime ==
    InitForYearCompleted =>
        \A k \in 2 .. Len(self_transitions) :
            LET until_time == self_transitions[k - 1].until_date_time
                Clocks(before, after) ==
                    /\ until_time = self_transitions[k].transition_time
                    /\ before # after =>
                         until_time # self_transitions[k].start_date_time
                    /\ (/\ before = after
                        /\ until_time.ss \in 0 .. (SECONDS_PER_DAY - 1)) =>
                         until_time = self_transitions[k].start_date_time
            IN Clocks(TotalOffset(self_transitions[k - 1]),
                      TotalOffset(self_transitions[k]))

\* A completed year with a change of total offset and one without.
UntilIsNextTransitionTimeWitness ==
    /\ InitForYearCompleted
    /\ recomputed
    /\ \E k \in 2 .. Len(self_transitions) :
         self_transitions[k - 1].until_date_time
             # self_transitions[k].start_date_time
    /\ \E k \in 2 .. Len(self_transitions) :
         self_transitions[k - 1].until_date_time
             = self_transitions[k].start_date_time

(***************************************************************************)
(* Civil lookups that find no transition                                   *)
(***************************************************************************)
\* C11: a civil lookup returns normally, and returns None if and only if the
\* year window of dt.year holds no active transition: an empty window is
\* answered with None instead of an exception, and a window with at least
\* one active transition answers every civil time with an OffsetInfo.
CivilLookupNoneIffNoTransitions ==
    CivilLookup =>
        /\ ret.ok
        /\ ret.v = None <=> self_transitions = << >>

(***************************************************************************)
(* The epoch of start_epoch_second                                         *)
(***************************************************************************)
\* The Unix time of the wall time t taken at the UTC offset total_offset,
\* less SECONDS_SINCE_UNIX_EPOCH; the subtraction is done in days, where the
\* numbers fit.
UnixTimeLessEpoch(t, total_offset) ==
    (ToOrdinal(t.y, t.M, t.d) - ToOrdinal(1970, 1, 1) - DAYS_SINCE_UNIX_EPOCH)
        * SECONDS_PER_DAY
    + t.ss - total_offset

\* The UTC year of the instant that lies epoch_seconds after ACETIME_EPOCH.
UtcYearSinceAcetimeEpoch(epoch_seconds) ==
    YearOfOrdinal(ToOrdinal(ACETIME_EPOCH.year, ACETIME_EPOCH.month,
                            ACETIME_EPOCH.day)
                  + (epoch_seconds \div SECONDS_PER_DAY))

\* C12: one epoch is used throughout. For every cached transition,
\* start_epoch_second + SECONDS_SINCE_UNIX_EPOCH is the Unix time of
\* start_date_time taken at offset_seconds + delta_seconds, and the year
\* that a lookup by seconds s initialises is the UTC year of the instant s
\* denotes on the scale of start_epoch_second.
OneEpoch ==
    /\ \A k \in DOMAIN self_transitions :
          self_transitions[k].start_epoch_second # None =>
              self_transitions[k].start_epoch_second[1]
                  = UnixTimeLessEpoch(self_transitions[k].start_date_time,
                                      TotalOffset(self_transitions[k]))
    /\ (call.op = "get_timezone_info_for_seconds" /\ ret.ok) =>
          self_year = UtcYearSinceAcetimeEpoch(call.arg[1])

(***************************************************************************)
(* The counters of the TransitionStorage                                   *)
(***************************************************************************)
\* C13: throughout every init_for_year run, and so after any sequence of
\* them, the in-flight count (index_free) is never negative, the peak
\* (index_beyond) is at least the in-flight count, and the peak never
\* decreases between two clear() calls.
StorageCountersSafe ==
    LET Safe(h) ==
            /\ h # << >>
            /\ h[Len(h)] = Counters(self_transition_storage.index_free,
                                    self_transition_storage.index_beyond)
            /\ \A i \in DOMAIN h :
                  /\ h[i].index_free >= 0
                  /\ h[i].index_beyond >= h[i].index_free
                  /\ i > 1 => h[i].index_beyond >= h[i - 1].index_beyond
    IN Safe(self_transition_storage.history)

\* A run in which the in-flight count went down after the peak was reached,
\* and ended below the peak.
StorageCountersSafeWitness ==
    LET Popped(h) ==
            /\ \E i \in 2 .. Len(h) :
                  /\ h[i].index_free < h[i - 1].index_free
                  /\ h[i - 1].index_free = h[i - 1].index_beyond
            /\ h[Len(h)].index_free > 0
            /\ h[Len(h)].index_free < h[Len(h)].index_beyond
    IN Popped(self_transition_storage.history)

(***************************************************************************)
(* The buffer size from a terminal year on                                 *)
(***************************************************************************)
\* C14: if is_terminal_year(Y0) is true for a zone, the buffer size that
\* get_buffer_sizes() reports after init_for_year(Y) is the same for every
\* year Y >= Y0: the size after a run for Y is the size of the run for Y0.
BufferSizeStableFromTerminalYear ==
    (call.op = "init_for_year" /\ recomputed) =>
        \A y0 \in TableYears :
            (y0 <= self_year /\ is_terminal_year(self_zone_info, y0)) =>
                get_buffer_sizes(Self).buffer_size
                    = Derived(self_zone_info, y0).transition_storage
                                                .index_beyond

(***************************************************************************)
(* The window of the active transitions                                    *)
(***************************************************************************)
\* The last call was an init_for_year that ran the derivation to its end.
InitForYearDerived == InitForYearCompleted /\ recomputed

\* C15: after init_for_year(Y) has derived the year, the active transitions
\* span the 14-month window exactly: transitions[0].start_date_time is
\* (Y-1, 12, 1, 0, 'w') and the until_date_time of the last active
\* transition is (Y+1, 2, 1, 0, 'w').
TransitionsSpanWindow ==
    InitForYearDerived =>
        /\ self_transitions # << >>
        /\ self_transitions[1].start_date_time
             = DateTuple(self_year - 1, 12, 1, 0, "w")
        /\ self_transitions[Len(self_transitions)].until_date_time
             = DateTuple(self_year + 1, 2, 1, 0, "w")

(***************************************************************************)
(* Pass 3 on the candidates of a named era                                 *)
(***************************************************************************)
\* The list that passes 1 and 2 of _create_transitions_from_named_match hand
\* to pass 3 for a match.
Pass3Candidates(match) ==
    _fix_transition_times(
        _find_candidate_transitions(clear, match,
                                    match.zone_era.zone_policy.rules)
            .transitions).transitions

\* _compare_transition_to_match on the time the transition had before pass 3
\* moved it to the start of the match.
CompareUnclamped(t, match) ==
    _compare_transition_to_match(
        IF t.original_transition_time = None THEN t
        ELSE [t EXCEPT !.transition_time = t.original_transition_time[1]],
        match).v

StartLessUntilIsOffsetChange ==
    InitForYearCompleted =>
        \A k \in 2 .. Len(self_transitions) :
            _subtract_date_tuple(self_transitions[k].start_date_time,
                                 self_transitions[k - 1].until_date_time)
                = Return(TotalOffset(self_transitions[k])
                             - TotalOffset(self_transitions[k - 1]))

\* init_for_year has derived a list in which one transition raises the total
\* offset and starts on the day after the until of the one before it, and
\* another lowers the total offset.
StartLessUntilIsOffsetChangeWitness ==
    /\ InitForYearDerived
    /\ \E k, l \in 2 .. Len(self_transitions) :
           /\ TotalOffset(self_transitions[k])
                  > TotalOffset(self_transitions[k - 1])
           /\ self_transitions[k].start_date_time.d
                  # self_transitions[k - 1].until_date_time.d
           /\ TotalOffset(self_transitions[l])
                  < TotalOffset(self_transitions[l - 1])

(***************************************************************************)
(* The helpers of the derivation on inputs of their own                    *)
(***************************************************************************)
\* The most transitions that the calls of _add_transition_sorted insert.
MaxInserted == 3

\* A ZoneProcessor of a zone of one to three eras without rules, in strictly
\* ascending until order and ending in the terminal era. The untils lie
\* around the two ends of the window of the year 2000: before it, at its
\* first month, inside it, and at and after its last month.
InitHelpers ==
    LET Plain(k, until) ==
            ZoneEra(k * 3600, ZonePolicy("-", << >>), 0, << "E" >>,
                    until.y, until.M, until.d, until.ss, until.f)
        untils ==
            << DateTuple(1999, 11, 15, 0, "w"),
               DateTuple(1999, 12, 1, 0, "w"),
               DateTuple(1999, 12, 1, 3600, "s"),
               DateTuple(2000, 6, 15, 7200, "u"),
               DateTuple(2000, 6, 30, 86400, "w"),
               DateTuple(2001, 2, 1, -3600, "w"),
               DateTuple(2001, 2, 1, 0, "w"),
               DateTuple(2001, 2, 2, 0, "w") >>
        last == DateTuple(MAX_UNTIL_YEAR, 1, 1, 0, "w")
    IN /\ \E i, j \in 0 .. Len(untils) :
             /\ i = 0 \/ i < j
             /\ self_zone_info =
                    ZoneInfo("Eras",
                             (IF i = 0 THEN << >>
                              ELSE << Plain(0, untils[i]) >>)
                             \o (IF j = 0 THEN << >>
                                 ELSE << Plain(1, untils[j]) >>)
                             \o << Plain(2, last) >>)
       /\ self_use_python_transition = FALSE
       /\ self_year = FreshYear
       /\ self_matches = << >>
       /\ self_transitions = << >>
       /\ self_transition_storage = clear
       /\ call = Call("__init__", << >>)
       /\ ret = Return(None)
       /\ recomputed = FALSE

\* self.matches = self._find_matches(start_ym, until_ym), with the window
\* that init_for_year passes for the year.
FindMatches(year) ==
    LET Found(start_ym, until_ym) ==
            /\ call' = Call("_find_matches", << start_ym, until_ym >>)
            /\ self_matches' = _find_matches(self_zone_info, start_ym,
                                             until_ym)
    IN /\ call.op = "__init__"
       /\ Found(YearMonthTuple(year - 1, 12), YearMonthTuple(year + 1, 2))
       /\ ret' = Return(None)
       /\ UNCHANGED << self_zone_info, self_use_python_transition, self_year,
                       self_transitions, self_transition_storage,
                       recomputed >>

\* _add_transition_sorted(self.transitions, transition) for a transition of
\* the first era at transition_time; call.arg holds the transitions inserted
\* so far, the argument of this call last.
AddTransitionSorted(transition_time) ==
    LET Added(transition) ==
            /\ call' = Call("_add_transition_sorted",
                            Append(IF call.op = "__init__" THEN << >>
                                   ELSE call.arg,
                                   transition))
            /\ self_transitions' = _add_transition_sorted(self_transitions,
                                                          transition)
    IN /\ call.op \in {"__init__", "_add_transition_sorted"}
       /\ Len(self_transitions) < MaxInserted
       /\ Added(Transition(
                    MatchingEra(DateTuple(1999, 12, 1, 0, "w"),
                                DateTuple(2001, 2, 1, 0, "w"),
                                self_zone_info.eras[1]),
                    transition_time, None))
       /\ ret' = Return(None)
       /\ UNCHANGED << self_zone_info, self_use_python_transition, self_year,
                       self_matches, self_transition_storage, recomputed >>

\* _get_transition_time(year, rule) for a rule that asks for a weekday (0 for
\* none) on, after or before a day of a month.
GetTransitionTime(year, in_month, on_day_of_week, on_day_of_month) ==
    LET Got(rule) ==
            /\ call' = Call("_get_transition_time", << year, rule >>)
            /\ ret' = _get_transition_time(year, rule)
    IN /\ call.op = "__init__"
       /\ Got(ZoneRule(1990, MAX_TO_YEAR, in_month, on_day_of_week,
                       on_day_of_month, 7200, "w", 3600, << "D" >>))
       /\ UNCHANGED << self_zone_info, self_use_python_transition, self_year,
                       self_matches, self_transitions,
                       self_transition_storage, recomputed >>

\* _expand_date_tuple(dt, offset_seconds, delta_seconds)
ExpandDateTuple(dt, offset, delta) ==
    /\ call.op = "__init__"
    /\ call' = Call("_expand_date_tuple",
                    << dt, offset, delta >>)
    /\ ret' = _expand_date_tuple(dt, offset, delta)
    /\ UNCHANGED << self_zone_info, self_use_python_transition, self_year,
                    self_matches, self_transitions, self_transition_storage,
                    recomputed >>

\* _calc_abbrev(transitions) on the transitions of one era with the format
\* fmt: one transition without a rule when rules is << None >> (a simple
\* era), else one transition for each rule.
CalcAbbrev(fmt, rules, rules_delta_seconds) ==
    LET match == MatchingEra(DateTuple(1999, 12, 1, 0, "w"),
                             DateTuple(2001, 2, 1, 0, "w"),
                             ZoneEra(0, IF rules = << None >> THEN POLICY_NONE
                                        ELSE ZONE_POLICY_EU,
                                     rules_delta_seconds, fmt,
                                     MAX_UNTIL_YEAR, 1, 1, 0, "w"))
        Named(transitions, r) ==
            /\ call' = Call("_calc_abbrev", << transitions >>)
            /\ ret' = IF r.exc = "" THEN Return(r.transitions)
                      ELSE Raise(r.exc)
        Called(transitions) == Named(transitions, _calc_abbrev(transitions))
    IN /\ call.op = "__init__"
       /\ Called([k \in 1 .. Len(rules) |->
                     Transition(match, match.start_date_time, rules[k])])
       /\ UNCHANGED << self_zone_info, self_use_python_transition, self_year,
                       self_matches, self_transitions,
                       self_transition_storage, recomputed >>

NextHelpers ==
    \/ \E year \in (MaxYear - 2) .. MaxYear : FindMatches(year)
    \/ \E fmt \in { << "G", "M", "T", "/", "B", "S", "T" >>,
                    << "P", "%", "s", "T" >>, << "%", "s" >>,
                    << "G", "M", "T" >>, << "A", "/", "B", "/", "C" >>,
                    << "%", "s", "/", "B" >> },
          rules \in { << None >>,
                      << Some(ZONE_POLICY_EU.rules[1]),
                         Some(ZONE_POLICY_EU.rules[2]) >>,
                      << Some(ZONE_POLICY_US.rules[1]),
                         Some(ZONE_POLICY_US.rules[2]) >> },
          rules_delta_seconds \in {0, 3600} :
           /\ rules # << None >> => rules_delta_seconds = 0
           /\ CalcAbbrev(fmt, rules, rules_delta_seconds)
    \/ \E date \in { << 2000, 12, 31, 86400 >>, << 2000, 3, 1, -3600 >>,
                     << 2000, 2, 28, 90000 >>, << 2000, 6, 15, 7200 >>,
                     << MIN_YEAR, 5, 7, 3600 >> },
          f \in {"w", "s", "u"}, offset \in {-39600, 0, 3600},
          delta \in {0, 3600} :
           ExpandDateTuple(DateTuple(date[1], date[2], date[3], date[4], f),
                           offset, delta)
    \/ \E year \in (MaxYear - 2) .. MaxYear, in_month \in {1, 2, 3, 12},
          on_day_of_week \in {0, 1, 4, 7},
          on_day_of_month \in {-25, -3, -1, 0, 1, 8, 25, 28} :
           /\ on_day_of_week = 0 => on_day_of_month > 0
           /\ GetTransitionTime(year, in_month, on_day_of_week,
                                on_day_of_month)
    \/ \E transition_time \in
             { DateTuple(2000, 3, 26, 3600, "u"),
               DateTuple(2000, 3, 26, 7200, "w"),
               DateTuple(2000, 10, 29, 3600, "u"),
               DateTuple(1999, 10, 31, 3600, "u") } :
           AddTransitionSorted(transition_time)

SpecHelpers == InitHelpers /\ [][NextHelpers]_vars

\* C18: the eras of the matches that _find_matches returns are, in the order
\* of the zone, the eras whose predecessor compares below until_ym (the first
\* era has none) and which compare above start_ym under
\* _compare_era_to_year_month, and no others; and that comparison of an era
\* with a year and month is -1 when the until year and month of the era are
\* earlier, +1 when they are later or when they are the same and until_day is
\* above 1 or until_seconds above 0, and 0 exactly when they are the same,
\* until_day is at most 1 and until_seconds is 0.
FindMatchesReturnsOverlappingEras ==
    call.op = "_find_matches" =>
        LET eras == self_zone_info.eras
            start_ym == call.arg[1]
            until_ym == call.arg[2]
            Cmp(era, ym) == _compare_era_to_year_month(era, ym.y, ym.M)
            Earlier(era, ym) ==
                \/ era.until_year < ym.y
                \/ era.until_year = ym.y /\ era.until_month < ym.M
            Same(era, ym) ==
                era.until_year = ym.y /\ era.until_month = ym.M
            Later(era, ym) ==
                \/ era.until_year > ym.y
                \/ era.until_year = ym.y /\ era.until_month > ym.M
                \/ /\ Same(era, ym)
                   /\ era.until_day > 1 \/ era.until_seconds > 0
            overlapping ==
                { k \in DOMAIN eras :
                      /\ k = 1 \/ Cmp(eras[k - 1], until_ym) < 0
                      /\ Cmp(eras[k], start_ym) > 0 }
            Nth(n) ==
                CHOOSE k \in overlapping :
                    Cardinality({ j \in overlapping : j < k }) = n - 1
        IN /\ Len(self_matches) = Cardinality(overlapping)
           /\ \A n \in DOMAIN self_matches :
                  self_matches[n].zone_era = eras[Nth(n)]
           /\ \A k \in DOMAIN eras :
                  \A ym \in {start_ym, until_ym} :
                      /\ Cmp(eras[k], ym) \in {-1, 0, 1}
                      /\ Earlier(eras[k], ym) => Cmp(eras[k], ym) = -1
                      /\ Later(eras[k], ym) => Cmp(eras[k], ym) = 1
                      /\ Cmp(eras[k], ym) = 0 <=>
                             /\ Same(eras[k], ym)
                             /\ eras[k].until_day <= 1
                             /\ eras[k].until_seconds = 0

\* _find_matches has returned the second era of a zone alone: the first era
\* ends exactly at start_ym and the second exactly at until_ym, so the first
\* does not reach into the window and the third begins at its end.
FindMatchesReturnsOverlappingErasWitness ==
    /\ call.op = "_find_matches"
    /\ Len(self_zone_info.eras) = 3
    /\ Len(self_matches) = 1
    /\ self_matches[1].zone_era = self_zone_info.eras[2]
    /\ _compare_era_to_year_month(self_zone_info.eras[1], call.arg[1].y,
                                  call.arg[1].M) = 0
    /\ _compare_era_to_year_month(self_zone_info.eras[2], call.arg[2].y,
                                  call.arg[2].M) = 0

\* C19: when the eras of the zone are in strictly ascending until order, every
\* match that _find_matches returns starts at or after the first day of
\* start_ym, ends after it starts and at or before the first day of until_ym,
\* and every match but the last ends where the next one starts; the tuples
\* are compared as the code compares them.
MatchesTileWindow ==
    call.op = "_find_matches" =>
        LET eras == self_zone_info.eras
            Until(era) ==
                DateTuple(era.until_year, era.until_month, era.until_day,
                          era.until_seconds, era.until_time_suffix)
            left_boundary == DateTuple(call.arg[1].y, call.arg[1].M, 1, 0, "w")
            right_boundary ==
                DateTuple(call.arg[2].y, call.arg[2].M, 1, 0, "w")
        IN (\A k \in 2 .. Len(eras) :
                TupleLess(Until(eras[k - 1]), Until(eras[k])))
           => \A n \in DOMAIN self_matches :
                  /\ TupleLessEq(left_boundary,
                                 self_matches[n].start_date_time)
                  /\ TupleLess(self_matches[n].start_date_time,
                               self_matches[n].until_date_time)
                  /\ TupleLessEq(self_matches[n].until_date_time,
                                 right_boundary)
                  /\ n > 1 => self_matches[n - 1].until_date_time
                                  = self_matches[n].start_date_time

\* _find_matches has returned three matches: the first begins at the first
\* day of start_ym, long after the start of its era, the last ends at the
\* first day of until_ym, long before the until of its era, and the one
\* between them is a whole era.
MatchesTileWindowWitness ==
    /\ call.op = "_find_matches"
    /\ Len(self_matches) = 3
    /\ self_matches[1].start_date_time
           = DateTuple(call.arg[1].y, call.arg[1].M, 1, 0, "w")
    /\ self_matches[3].until_date_time
           = DateTuple(call.arg[2].y, call.arg[2].M, 1, 0, "w")
    /\ self_matches[3].zone_era.until_year = MAX_UNTIL_YEAR
    /\ self_matches[2].until_date_time.y = self_matches[2].zone_era.until_year
    /\ self_matches[2].until_date_time.ss
           = self_matches[2].zone_era.until_seconds

\* C20: after any sequence of _add_transition_sorted calls on a list that was
\* empty, the list holds exactly the transitions inserted, each as often as
\* it was inserted, and no element has a transition_time below that of an
\* element before it, the times compared as _check_transitions_sorted
\* compares them: date first, then seconds.
InsertionKeepsListSorted ==
    call.op = "_add_transition_sorted" =>
        LET Count(list, t) == Cardinality({ i \in DOMAIN list : list[i] = t })
        IN /\ Len(self_transitions) = Len(call.arg)
           /\ \A i \in DOMAIN call.arg :
                  Count(self_transitions, call.arg[i])
                      = Count(call.arg, call.arg[i])
           /\ \A i, j \in DOMAIN self_transitions :
                  i < j => ~TupleLess(self_transitions[j].transition_time,
                                      self_transitions[i].transition_time)

(***************************************************************************)
(* The sort verification of the candidate lists                            *)
(***************************************************************************)
\* C21: for every named match of a derivation that init_for_year completed,
\* _check_transitions_sorted returns normally on the candidates after pass 2
\* exactly when no candidate has a transition_time below that of the
\* candidate before it; as the derivation completed, the check did return,
\* so the candidates that went on to pass 3 are sorted.
SortCheckIsComplete ==
    InitForYearDerived =>
        \A k \in DOMAIN self_matches :
            LET Sorted(c) ==
                    \A i \in 2 .. Len(c) :
                        ~TupleLess(c[i].transition_time,
                                   c[i - 1].transition_time)
                Complete(c) == _check_transitions_sorted(c).ok <=> Sorted(c)
            IN self_matches[k].zone_era.zone_policy.name \notin {"-", ":"}
                   => Complete(Pass3Candidates(self_matches[k]))

(***************************************************************************)
(* The storage counters against the active transitions                     *)
(***************************************************************************)
\* C22: after init_for_year has returned, index_free of the storage is the
\* number of transitions of the processor and the buffer_size that
\* get_buffer_sizes reports is at least its active_size; and the same holds
\* of the counters and the list after each of the matches has been processed
\* in turn.
BufferAccountingBalances ==
    InitForYearCompleted =>
        LET Balanced(p) ==
                p.exc = "" =>
                    /\ p.transition_storage.index_free = Len(p.transitions)
                    /\ p.transition_storage.index_beyond >= Len(p.transitions)
            Sizes(sizes) == sizes.buffer_size >= sizes.active_size
        IN /\ self_transition_storage.index_free = Len(self_transitions)
           /\ Sizes(get_buffer_sizes(Self))
           /\ \A k \in 0 .. Len(self_matches) :
                  Balanced(_create_transitions(
                               Derivation(<< >>, clear, ""),
                               SubSeq(self_matches, 1, k)))

\* init_for_year has derived the transitions of three matches, of which the
\* second left one transition and the third more than one, and the storage
\* has held more transitions than are active now.
BufferAccountingBalancesWitness ==
    /\ InitForYearDerived
    /\ Len(self_matches) = 3
    /\ Len(self_transitions) > 3
    /\ self_transition_storage.index_beyond
           > self_transition_storage.index_free
    /\ \E k \in 2 .. Len(self_transitions) - 1 :
           /\ self_transitions[k].matching_era = self_matches[2]
           /\ self_transitions[k - 1].matching_era = self_matches[1]
           /\ self_transitions[k + 1].matching_era = self_matches[3]

(***************************************************************************)
(* The cache after a derivation that raised                                *)
(***************************************************************************)
\* C23: a call that returns without running the derivation, because
\* self.year is already the year it asks for, finds a year whose derivation
\* ran to its end: no call returns on the matches and transitions that a
\* derivation left behind when it raised. The year of a processor that has
\* derived nothing yet is left aside.
NoCacheHitAfterAbort ==
    (call.op # "__init__" /\ ret.ok /\ ~recomputed
         /\ self_year # FreshYear)
        => Derived(self_zone_info, self_year).exc = ""

(***************************************************************************)
(* The day of the month of a rule                                          *)
(***************************************************************************)
\* C24: the transition_time that _get_transition_time returns for a rule
\* with in_month in 1 .. 12 is a date of the calendar: its month is in
\* 1 .. 12 and its day is a day of that month.
TransitionTimeIsCalendarDate ==
    (call.op = "_get_transition_time" /\ ret.ok
         /\ call.arg[2].in_month \in 1 .. 12)
        => IsValidDate(ret.v.y, ret.v.M, ret.v.d)

\* C29: for a rule with a weekday, the month and day that calc_day_of_month
\* hands to _get_transition_time fall on that ISO weekday and are the first
\* such day on or after on_day_of_month when that is positive, the last
\* such day of the month when it is 0, and the last such day on or before
\* -on_day_of_month when it is negative; the month is the month of the rule,
\* the one before or the one after (0 standing for December of the year
\* before, 13 for January of the year after), and the day is a day of it.
CalcDayOfMonthIsRequestedWeekday ==
    (call.op = "_get_transition_time" /\ ret.ok
         /\ call.arg[2].on_day_of_week # 0)
        => LET year == call.arg[1]
               month == call.arg[2].in_month
               day_spec == call.arg[2].on_day_of_month
               first == ToOrdinal(year, month, 1)
               last == first + days_in_year_month(year, month) - 1
               limit == IF day_spec < 0 THEN first - day_spec - 1
                        ELSE first + day_spec - 1
               Days(M) ==
                   IF M \in {0, 13} THEN 31 ELSE days_in_year_month(year, M)
               Ordinal(M, d) ==
                   IF M = 0 THEN ToOrdinal(year - 1, 12, d)
                   ELSE IF M = 13 THEN ToOrdinal(year + 1, 1, d)
                   ELSE ToOrdinal(year, M, d)
               Requested(M, n) ==
                   /\ M \in {month - 1, month, month + 1}
                   /\ ((n + 6) % 7) + 1 = call.arg[2].on_day_of_week
                   /\ day_spec > 0 => n >= limit /\ n < limit + 7
                   /\ day_spec = 0 => n <= last /\ n > last - 7
                   /\ day_spec < 0 => n <= limit /\ n > limit - 7
           IN /\ ret.v.d \in 1 .. Days(ret.v.M)
              /\ Requested(ret.v.M, Ordinal(ret.v.M, ret.v.d))

\* _get_transition_time has returned for a rule that asks for the first
\* Sunday on or after December 28 in a year where that Sunday falls in
\* January of the year after.
CalcDayOfMonthIsRequestedWeekdayWitness ==
    /\ call.op = "_get_transition_time"
    /\ ret.ok
    /\ call.arg[2].on_day_of_week = 7
    /\ call.arg[2].in_month = 12
    /\ call.arg[2].on_day_of_month = 28
    /\ ret.v.M = 13

(***************************************************************************)
(* The comparison of a transition with a match                             *)
(***************************************************************************)
\* C25: for every candidate that passes 1 and 2 hand to pass 3 for a named
\* match of the processor, _compare_transition_to_match answers -1 when the
\* time of the candidate in the suffix of the start of the match is before
\* that start, 0 when it is that start, 2 when its time in the suffix of the
\* until of the match is at or after that until, and 1 otherwise; and no
\* candidate is both at or before the start and at or after the until.
CompareClassifiesBySuffixForm ==
    \A k \in DOMAIN self_matches :
        LET match == self_matches[k]
            Form(t, f) ==
                IF f = "w" THEN t.transition_time
                ELSE IF f = "s" THEN t.transition_time_s[1]
                ELSE t.transition_time_u[1]
            Class(at_start, at_until) ==
                IF TupleLess(at_start, match.start_date_time) THEN -1
                ELSE IF at_start = match.start_date_time THEN 0
                ELSE IF TupleLessEq(match.until_date_time, at_until) THEN 2
                ELSE 1
            Exclusive(at_start, at_until) ==
                ~ /\ TupleLessEq(at_start, match.start_date_time)
                  /\ TupleLessEq(match.until_date_time, at_until)
            Classified(c) ==
                \A i \in DOMAIN c :
                    /\ _compare_transition_to_match(c[i], match)
                           = Return(Class(
                                 Form(c[i], match.start_date_time.f),
                                 Form(c[i], match.until_date_time.f)))
                    /\ Exclusive(Form(c[i], match.start_date_time.f),
                                 Form(c[i], match.until_date_time.f))
        IN match.zone_era.zone_policy.name \notin {"-", ":"}
               => Classified(Pass3Candidates(match))

\* The processor holds a match that starts and ends at UTC times and whose
\* candidates get the answers -1, 0 and 1, and a match whose until is a UTC
\* time with a candidate exactly at it, which gets the answer 2.
CompareClassifiesBySuffixFormWitness ==
    /\ call.op = "init_for_year"
    /\ \E k, l \in DOMAIN self_matches :
           LET Has(match, c, cmp) ==
                   \E i \in DOMAIN c :
                       _compare_transition_to_match(c[i], match).v = cmp
               AtUntil(match, c) ==
                   /\ match.until_date_time.f = "u"
                   /\ \E i \in DOMAIN c :
                          /\ c[i].transition_time_u
                                 = Some(match.until_date_time)
                          /\ _compare_transition_to_match(c[i], match).v = 2
               AtStart(match, c) ==
                   /\ match.start_date_time.f = "u"
                   /\ Has(match, c, -1)
                   /\ Has(match, c, 0)
           IN /\ AtStart(self_matches[k], Pass3Candidates(self_matches[k]))
              /\ AtUntil(self_matches[l], Pass3Candidates(self_matches[l]))
              /\ Has(self_matches[l], Pass3Candidates(self_matches[l]), 1)

\* The transitions that the rules of a named match make for the years from
\* the year before the match starts to the year after it ends, as
\* _find_candidate_transitions makes them for _compare_transition_to_match_fuzzy.
RuleTransitions(match) ==
    LET rules == match.zone_era.zone_policy.rules
        Made(made) == IF made.ok THEN {made.v} ELSE {}
    IN UNION { Made(_create_transition_for_year(year, rules[r], match)) :
                   year \in (match.start_date_time.y - 1)
                                .. (match.until_date_time.y + 1),
                   r \in DOMAIN rules }

\* C26: for every transition that a rule of a named match of the processor
\* makes, with t = 12 * y + M of its transition_time,
\* _compare_transition_to_match_fuzzy answers -1 exactly when t is below
\* 12 * y + M of the start of the match less 1, 2 exactly when t is at least
\* 12 * y + M of the until of the match plus 2, and 1 in every other case,
\* never 0.
FuzzyCompareAllowsSlack ==
    \A k \in DOMAIN self_matches :
        LET match == self_matches[k]
            Months(dt) == 12 * dt.y + dt.M
            Compared(t, cmp) ==
                /\ cmp \in {-1, 1, 2}
                /\ cmp = -1 <=> t < Months(match.start_date_time) - 1
                /\ cmp = 2 <=> t >= Months(match.until_date_time) + 2
        IN match.zone_era.zone_policy.name \notin {"-", ":"}
               => \A transition \in RuleTransitions(match) :
                      Compared(Months(transition.transition_time),
                               _compare_transition_to_match_fuzzy(transition,
                                                                  match))

\* The processor holds a named match whose rules make a transition in the
\* month before its start and one in the month after its until, both
\* answered 1, and transitions answered -1 and 2.
FuzzyCompareAllowsSlackWitness ==
    /\ call.op = "init_for_year"
    /\ \E k \in DOMAIN self_matches :
           LET match == self_matches[k]
               Months(dt) == 12 * dt.y + dt.M
               Has(made, months, cmp) ==
                   \E t \in made :
                       /\ _compare_transition_to_match_fuzzy(t, match) = cmp
                       /\ months = 0 \/ Months(t.transition_time) = months
               Slack(made) ==
                   /\ Has(made, Months(match.start_date_time) - 1, 1)
                   /\ Has(made, Months(match.until_date_time) + 1, 1)
                   /\ Has(made, 0, -1)
                   /\ Has(made, 0, 2)
           IN /\ match.zone_era.zone_policy.name \notin {"-", ":"}
              /\ Slack(RuleTransitions(match))

(***************************************************************************)
(* The three forms of a time                                               *)
(***************************************************************************)
\* C27: when _expand_date_tuple returns for a time dt that is not in the
\* year MIN_YEAR, the three tuples carry the suffixes w, s and u in that
\* order, the first less the second is delta_seconds, the second less the
\* third is offset_seconds, the one with the suffix of dt less dt is 0, and
\* expanding any of the three with the same offset and delta returns the
\* same three.
ExpandedFormsDifferByOffsets ==
    (call.op = "_expand_date_tuple" /\ ret.ok /\ call.arg[1].y # MIN_YEAR)
        => LET dt == call.arg[1]
               Own(w, st, u) ==
                   IF dt.f = "w" THEN w ELSE IF dt.f = "s" THEN st ELSE u
               Forms(w, st, u) ==
                   /\ << w.f, st.f, u.f >> = << "w", "s", "u" >>
                   /\ _subtract_date_tuple(w, st) = Return(call.arg[3])
                   /\ _subtract_date_tuple(st, u) = Return(call.arg[2])
                   /\ _subtract_date_tuple(Own(w, st, u), dt) = Return(0)
           IN /\ Forms(ret.v[1], ret.v[2], ret.v[3])
              /\ \A i \in 1 .. 3 :
                     _expand_date_tuple(ret.v[i], call.arg[2], call.arg[3])
                         = ret

\* C27 as stated, for every dt: the same relations among the three tuples
\* that _expand_date_tuple returns, the year MIN_YEAR included, whose three
\* forms are all (MIN_YEAR, 1, 1, 0).
ExpandedFormsDifferByOffsetsAnyYear ==
    (call.op = "_expand_date_tuple" /\ ret.ok)
        => LET dt == call.arg[1]
               Own(w, st, u) ==
                   IF dt.f = "w" THEN w ELSE IF dt.f = "s" THEN st ELSE u
               Forms(w, st, u) ==
                   /\ << w.f, st.f, u.f >> = << "w", "s", "u" >>
                   /\ _subtract_date_tuple(w, st) = Return(call.arg[3])
                   /\ _subtract_date_tuple(st, u) = Return(call.arg[2])
                   /\ _subtract_date_tuple(Own(w, st, u), dt) = Return(0)
           IN /\ Forms(ret.v[1], ret.v[2], ret.v[3])
              /\ \A i \in 1 .. 3 :
                     _expand_date_tuple(ret.v[i], call.arg[2], call.arg[3])
                         = ret

\* _expand_date_tuple has returned for a UTC time with an offset and a delta
\* that are not 0, and the wall form falls on another day than the UTC form.
ExpandedFormsDifferByOffsetsWitness ==
    /\ call.op = "_expand_date_tuple"
    /\ ret.ok
    /\ call.arg[1].y # MIN_YEAR
    /\ call.arg[1].f = "u"
    /\ call.arg[2] # 0
    /\ call.arg[3] # 0
    /\ ret.v[1].d # ret.v[3].d

\* C28: the tuple that _normalize_date_tuple returns for the time dt handed
\* to _expand_date_tuple, which is the one of the three forms that has the
\* suffix of dt: for a dt in the year MIN_YEAR it is (MIN_YEAR, 1, 1, 0) with
\* the suffix of dt; for any other dt it is a date of the calendar with
\* seconds from 0 to 86399 and the suffix of dt, it less dt is 0, and
\* normalizing it again returns it unchanged.
NormalizedIsSameInstant ==
    (call.op = "_expand_date_tuple" /\ ret.ok)
        => LET dt == call.arg[1]
               Normal(n) ==
                   IF dt.y = MIN_YEAR
                   THEN n = DateTuple(MIN_YEAR, 1, 1, 0, dt.f)
                   ELSE /\ IsValidDate(n.y, n.M, n.d)
                        /\ n.ss >= 0 /\ n.ss < SECONDS_PER_DAY
                        /\ n.f = dt.f
                        /\ _subtract_date_tuple(n, dt) = Return(0)
                        /\ _normalize_date_tuple(n) = Return(n)
           IN Normal(IF dt.f = "w" THEN ret.v[1]
                     ELSE IF dt.f = "s" THEN ret.v[2] ELSE ret.v[3])

\* _expand_date_tuple has returned for a wall time of 24:00 on December 31,
\* which _normalize_date_tuple moved to January 1 of the year after.
NormalizedIsSameInstantWitness ==
    /\ call.op = "_expand_date_tuple"
    /\ ret.ok
    /\ call.arg[1] = DateTuple(2000, 12, 31, 86400, "w")
    /\ ret.v[1] = DateTuple(2001, 1, 1, 0, "w")

(***************************************************************************)
(* Abbreviations                                                           *)
(***************************************************************************)
\* C30: when _calc_abbrev returns, the abbrev of each transition follows from
\* the format F of its era and its delta_seconds: if F has a '/', the part of
\* F before the first '/' when delta_seconds is 0 and the part after it
\* otherwise; else if F has a '%s', F with the letter of the rule in the place
\* of the first '%s', nothing in its place when the letter is '-' or the
\* transition has no rule; else F.
AbbrevFollowsFormat ==
    (call.op = "_calc_abbrev" /\ ret.ok)
        => LET First(hits) == CHOOSE i \in hits : \A j \in hits : i <= j
               Substituted(F, i, L) ==
                   SubSeq(F, 1, i - 1) \o L \o SubSeq(F, i + 2, Len(F))
               Abbrev(F, slashes, subs, delta, L) ==
                   IF slashes # {}
                   THEN IF delta = 0 THEN SubSeq(F, 1, First(slashes) - 1)
                        ELSE SubSeq(F, First(slashes) + 1, Len(F))
                   ELSE IF subs # {} THEN Substituted(F, First(subs), L)
                   ELSE F
               Expected(t, F) ==
                   Abbrev(F, {i \in 1 .. Len(F) : F[i] = "/"},
                          {i \in 1 .. (Len(F) - 1) :
                              F[i] = "%" /\ F[i + 1] = "s"},
                          delta_seconds(t),
                          IF t.zone_rule = None
                             \/ t.zone_rule[1].letter = << "-" >>
                          THEN << >> ELSE t.zone_rule[1].letter)
           IN /\ Len(ret.v) = Len(call.arg[1])
              /\ \A k \in 1 .. Len(ret.v) :
                     ret.v[k] = [call.arg[1][k] EXCEPT !.abbrev =
                                    Some(Expected(call.arg[1][k],
                                                  format(call.arg[1][k])))]

\* _calc_abbrev has returned for the two transitions of an era with the
\* format 'P%sT', one for a rule with the letter 'S' and one for a rule with
\* the letter '-', and has named them 'PST' and 'PT'.
AbbrevFollowsFormatWitness ==
    /\ call.op = "_calc_abbrev"
    /\ ret.ok
    /\ Len(ret.v) = 2
    /\ format(ret.v[1]) = << "P", "%", "s", "T" >>
    /\ ret.v[1].zone_rule[1].letter = << "S" >>
    /\ ret.v[2].zone_rule[1].letter = << "-" >>
    /\ ret.v[1].abbrev = Some(<< "P", "S", "T" >>)
    /\ ret.v[2].abbrev = Some(<< "P", "T" >>)

====
